---------------------------- MODULE Spec2Model ----------------------------
(***************************************************************************)
(* Voyage speed optimisation pipeline: the forward Bellman DP              *)
(* (pipeline/dynamic_det), the rolling-horizon driver (pipeline/dynamic_rh)*)
(* the static LP (pipeline/static_det), the voyage simulator and the       *)
(* metrics step, driven per tier by pipeline/cli.py.                       *)
(*                                                                         *)
(* Numbers are fixed point.  Hours and kilograms carry Sub units below the *)
(* last decimal that round(x, 4) keeps, so rounding is not the identity.   *)
(* Speeds are in thousandths of a knot, distances in nautical miles; the    *)
(* inverse speed search and the fuel rate work in 2^-16 knot, where every  *)
(* midpoint of the bisection is exact.                                     *)
(***************************************************************************)
EXTENDS Integers, Sequences, FiniteSets, TLC

\* ------------------------------------------------------------------------
\* Bounds of the model and units
\* ------------------------------------------------------------------------
MaxLegs == 3
MaxETA == 4
Sub == 10
Decimals == 4
TimeBuffer == 50

Hour == Sub * 10^Decimals          \* ticks per hour (and fuel units per kg)
Kg == Sub * 10^Decimals
Knot == 10^3                       \* speed units per knot
Fine == 2^16                       \* fine speed units per knot

NULL == [none |-> TRUE]
None == -1                         \* an option that is not set

Max(a, b) == IF a >= b THEN a ELSE b
Min(a, b) == IF a <= b THEN a ELSE b
Abs(a) == IF a >= 0 THEN a ELSE -a

\* floor(a * b / d) for a, b >= 0 and d > 0, without forming a * b:
\* MulDiv splits b (for a small a), DivMul splits a (for a small b)
MulDiv(a, b, d) == a * (b \div d) + (a * (b % d)) \div d
DivMul(a, b, d) == (a \div d) * b + ((a % d) * b) \div d

\* a speed in thousandths of a knot, in fine units (exact on multiples of
\* 1/8 knot, which the inputs of the model are)
ToFine(v) == (v * Fine) \div Knot

\* floor(a * b / Fine) for 0 <= a < 2^26 and b >= 0 with a * (b \div Fine)
\* in range
MulFine(a, b) ==
    LET p == (a \div 8192) * (b % Fine)
    IN  a * (b \div Fine) + p \div 8 + ((p % 8) * 8192 + (a % 8192) * (b % Fine)) \div Fine

\* math.ceil(x / d) for x >= 0, d > 0
Ceil(x, d) == (x + d - 1) \div d

\* Python round(): nearest multiple of q, ties to the even multiple
RoundHalfEven(x, q) ==
    LET n == x \div q
        r == x % q
    IN  IF 2 * r < q THEN n * q
        ELSE IF 2 * r > q THEN (n + 1) * q
        ELSE IF n % 2 = 0 THEN n * q ELSE (n + 1) * q

\* round(x, 4) on a value carrying Sub units below the 4th decimal
Round4(x) == RoundHalfEven(x, Sub)

\* int(round(h)) on a time in ticks: the nearest whole hour
RoundHour(x) == RoundHalfEven(x, Hour) \div Hour

MinOfSet(S) == CHOOSE m \in S : \A x \in S : m <= x
MaxOfSet(S) == CHOOSE m \in S : \A x \in S : m >= x

RECURSIVE SumSeq(_, _)
SumSeq(s, f) == IF s = <<>> THEN 0 ELSE s[1][f] + SumSeq(Tail(s), f)

\* ------------------------------------------------------------------------
\* Physics kernel (shared/physics.py), with the current along the track
\* (wx.current > 0 is a following current) and two sea states: Beaufort 0,
\* and Beaufort 12 with the wind from ahead.
\* ------------------------------------------------------------------------
Calm == [beaufort_number |-> 0, current |-> 0]

\* steps 1-6: min(max(Cbeta * CU * CForm, 0), 50).  CForm is 0 at Beaufort
\* 0; at Beaufort 12 with the wind from ahead Cbeta = 2, CU >= 0.1 and
\* CForm > 350 for the 50000 t ship, so the product is capped at 50
calculate_speed_loss_percentage(beaufort_scale) ==
    IF beaufort_scale = 0 THEN 0 ELSE 50

\* Vw = max(V * (1 - loss / 100), 1.0); one_knot is the unit of ship_speed
calculate_weather_corrected_speed(ship_speed, speed_loss_percent, one_knot) ==
    Max((ship_speed * (100 - speed_loss_percent)) \div 100, one_knot)

\* steps 7-8 and the 3.5 % reduction at Beaufort >= 5
SpeedOverGround(ship_speed, wx, one_knot) ==
    LET vw == calculate_weather_corrected_speed(ship_speed,
                  calculate_speed_loss_percentage(wx.beaufort_number), one_knot)
        sog == Abs(vw + (wx.current * one_knot) \div Knot)
    IN  IF wx.beaufort_number >= 5 THEN (sog * 965) \div 1000 ELSE sog

\* SOG in thousandths of a knot of a speed in thousandths of a knot
calculate_speed_over_ground(ship_speed, wx) == SpeedOverGround(ship_speed, wx, Knot)

\* FCR = max(0.000706 * V^3, 0.1), in units of 10^-4 per hour, of a speed
\* in fine units
calculate_fuel_consumption_rate(ship_speed) ==
    LET v2 == MulFine(ship_speed, ship_speed)
        v3 == MulFine(v2, ship_speed)
    IN  Max(MulDiv(353, v3, 50 * Fine), 1000)

\* ------------------------------------------------------------------------
\* Forward Bellman DP (dynamic_det/optimize.py)
\* A transform output tr has ETA and time_offset in ticks; dt is the slot
\* length in ticks.  A node's table is the insertion-ordered list of its
\* cells [t, cost, pt, pk]: cost[node][t] and parent[node][t] = (pt, pk).
\* ------------------------------------------------------------------------
MaxTimeSlots(ETA, dt) == Ceil(ETA, dt) + Ceil(TimeBuffer * Hour, dt)

\* fh = min(int(round(current_hour + time_offset)), max_fh)
ForecastHour(tr, current_hour) ==
    Min(RoundHour(current_hour + tr.time_offset), tr.max_forecast_hour)

\* closest = min(sorted(available), key=|h - fh|): the smallest nearest hour
Closest(available, fh) ==
    CHOOSE h \in available :
        \A g \in available : Abs(h - fh) < Abs(g - fh)
                             \/ (Abs(h - fh) = Abs(g - fh) /\ h <= g)

\* the lookup without the nearest-hour step: exact match, else calm
LookupWeather_ExactOrCalm(tr, nid, fh) ==
    IF nid \in DOMAIN tr.weather_grid /\ fh \in DOMAIN tr.weather_grid[nid]
    THEN tr.weather_grid[nid][fh] ELSE Calm

\* exact match, else nearest available forecast hour, else calm defaults
LookupWeather(tr, nid, fh) ==
    LET node_wx == IF nid \in DOMAIN tr.weather_grid
                   THEN tr.weather_grid[nid] ELSE <<>>
    IN  IF fh \in DOMAIN node_wx THEN node_wx[fh]
        ELSE IF DOMAIN node_wx # {} THEN node_wx[Closest(DOMAIN node_wx, fh)]
        ELSE Calm

TNext_Floor(arrival_time, dt) == arrival_time \div dt

\* t_next = int(math.ceil(arrival_time / dt))
TNext(arrival_time, dt) == Ceil(arrival_time, dt)

\* leg_fuel = fcr[k] * travel_time and the slot of the arrival time
EdgeCost(fcr_k, current_hour, dt, sog, travel_time) ==
    [sog |-> sog,
     travel_time |-> travel_time,
     leg_fuel |-> MulDiv(fcr_k, travel_time, 10^Decimals),
     t_next |-> TNext(current_hour + travel_time, dt)]

\* travel_time = dist / sog
EdgeAtSog(tr, dt, i, t, k, sog) ==
    EdgeCost(tr.fcr[k], t * dt, dt, sog, DivMul(tr.distances[i + 1] * Hour, Knot, sog))

\* the edge of speed index k leaving cell (i, t); i is the 0-based leg;
\* sog = max(calculate_speed_over_ground(speeds[k], wx), 0.1)
Edge(tr, dt, i, t, k) ==
    EdgeAtSog(tr, dt, i, t, k,
        Max(calculate_speed_over_ground(tr.speeds[k],
                LookupWeather(tr, tr.node_metadata[i + 1].node_id,
                              ForecastHour(tr, t * dt))),
            Knot \div 10))

SlotIndex(tab, t) ==
    LET S == {j \in 1..Len(tab) : tab[j].t = t}
    IN  IF S = {} THEN 0 ELSE CHOOSE j \in S : TRUE

Relax_Overwrite(tab, t_next, new_cost, t, k) ==
    LET j == SlotIndex(tab, t_next)
        cell == [t |-> t_next, cost |-> new_cost, pt |-> t, pk |-> k]
    IN  IF j = 0 THEN Append(tab, cell) ELSE [tab EXCEPT ![j] = cell]

\* a relaxation that lowers the cost of a cell but leaves its old parent
Relax_StaleParent(tab, t_next, new_cost, t, k) ==
    LET j == SlotIndex(tab, t_next)
        cell == [t |-> t_next, cost |-> new_cost, pt |-> t, pk |-> k]
    IN  IF j = 0 THEN Append(tab, cell)
        ELSE IF new_cost < tab[j].cost THEN [tab EXCEPT ![j].cost = new_cost]
        ELSE tab

\* if t_next not in cost[next] or new_cost < cost[next][t_next]: store
Relax(tab, t_next, new_cost, t, k) ==
    LET j == SlotIndex(tab, t_next)
        cell == [t |-> t_next, cost |-> new_cost, pt |-> t, pk |-> k]
    IN  IF j = 0 THEN Append(tab, cell)
        ELSE IF new_cost < tab[j].cost THEN [tab EXCEPT ![j] = cell]
        ELSE tab

\* the relaxation without the time horizon: every edge is stored
RelaxEdge_NoHorizon(tr, dt, cell, k, e, next_tab) ==
    Relax(next_tab, e.t_next, cell.cost + e.leg_fuel, cell.t, k)

\* if t_next >= max_time_slots: continue; else relax the target cell
RelaxEdge(tr, dt, cell, k, e, next_tab) ==
    IF e.t_next >= MaxTimeSlots(tr.ETA, dt) THEN next_tab
    ELSE Relax(next_tab, e.t_next, cell.cost + e.leg_fuel, cell.t, k)

RECURSIVE RelaxSpeeds(_, _, _, _, _, _)
RelaxSpeeds(tr, dt, i, cell, k, next_tab) ==
    IF k > Len(tr.speeds) THEN next_tab
    ELSE RelaxSpeeds(tr, dt, i, cell, k + 1,
             RelaxEdge(tr, dt, cell, k, Edge(tr, dt, i, cell.t, k), next_tab))

RECURSIVE RelaxCells(_, _, _, _, _, _)
RelaxCells(tr, dt, i, tab, j, next_tab) ==
    IF j > Len(tab) THEN next_tab
    ELSE RelaxCells(tr, dt, i, tab, j + 1,
                    RelaxSpeeds(tr, dt, i, tab[j], 1, next_tab))

\* tabs[i + 1] is the table of node i; the recursion appends node i + 1
RECURSIVE ForwardDP(_, _, _, _)
ForwardDP(tr, dt, i, tabs) ==
    IF i >= tr.num_legs THEN tabs
    ELSE ForwardDP(tr, dt, i + 1,
                   Append(tabs, RelaxCells(tr, dt, i, tabs[i + 1], 1, <<>>)))

DpTables(tr, dt) ==
    ForwardDP(tr, dt, 0, << <<[t |-> 0, cost |-> 0, pt |-> 0, pk |-> 0]>> >>)

WithinEta_Always(t, dt, ETA) == TRUE

\* t * dt <= ETA: the arrival slot meets the deadline
WithinEta(t, dt, ETA) == t * dt <= ETA

\* for t, fuel in cost[dest].items(): if t*dt <= ETA and fuel < best_fuel
RECURSIVE BestCell(_, _, _, _, _)
BestCell(tab, dt, ETA, j, best) ==
    IF j > Len(tab) THEN best
    ELSE BestCell(tab, dt, ETA, j + 1,
                  IF WithinEta(tab[j].t, dt, ETA)
                     /\ (best = 0 \/ tab[j].cost < tab[best].cost)
                  THEN j ELSE best)

\* the schedule record of leg i sailed at speed index k along edge e
ScheduleEntry(tr, i, k, e) ==
    [leg |-> i,
     node_id |-> tr.node_metadata[i + 1].node_id,
     segment |-> tr.node_metadata[i + 1].segment,
     sws_knots |-> tr.speeds[k],
     sog_knots |-> e.sog,
     distance_nm |-> tr.distances[i + 1],
     time_h |-> Round4(e.travel_time),
     fuel_kg |-> Round4(e.leg_fuel)]

\* the cell of slot t_cur, holding parent[i + 1][t_cur] = (pt, pk)
ParentCell(tab, t_cur) == tab[SlotIndex(tab, t_cur)]

\* the backtracked schedule, leg num_legs-1 first
RECURSIVE Backtrack(_, _, _, _, _)
RECURSIVE BacktrackFrom(_, _, _, _, _)
BacktrackFrom(tr, dt, tabs, i, c) ==
    <<ScheduleEntry(tr, i, c.pk, Edge(tr, dt, i, c.pt, c.pk))>>
    \o Backtrack(tr, dt, tabs, i - 1, c.pt)

Backtrack(tr, dt, tabs, i, t_cur) ==
    IF i < 0 THEN <<>>
    ELSE BacktrackFrom(tr, dt, tabs, i, ParentCell(tabs[i + 2], t_cur))

RECURSIVE Reverse(_)
Reverse(s) == IF s = <<>> THEN <<>> ELSE Append(Reverse(Tail(s)), s[1])

DpStatus(best_fuel, total_fuel) ==
    IF Abs(best_fuel - total_fuel) < Kg THEN "Optimal" ELSE "Feasible"

\* the result record of a plan found: totals are summed from the schedule
DpPlan(best_fuel, schedule) ==
    [status |-> DpStatus(best_fuel, SumSeq(schedule, "fuel_kg")),
     planned_fuel_kg |-> SumSeq(schedule, "fuel_kg"),
     planned_time_h |-> SumSeq(schedule, "time_h"),
     speed_schedule |-> schedule,
     solver |-> "bellman_dp"]

\* if best_t is None: Infeasible; else backtrack from the best cell
DpTerminate(tr, dt, tabs, dest, best) ==
    IF best = 0
    THEN [status |-> "Infeasible", solver |-> "bellman_dp"]
    ELSE DpPlan(dest[best].cost,
                Reverse(Backtrack(tr, dt, tabs, tr.num_legs - 1, dest[best].t)))

\* the termination step on the tables of the forward recursion
DpArrival(tr, dt, tabs) ==
    DpTerminate(tr, dt, tabs, tabs[tr.num_legs + 1],
                BestCell(tabs[tr.num_legs + 1], dt, tr.ETA, 1, 0))

DpOptimize(tr, dt) == DpArrival(tr, dt, DpTables(tr, dt))

\* ------------------------------------------------------------------------
\* Rolling-horizon driver (dynamic_rh/optimize.py)
\* ------------------------------------------------------------------------
\* decision_hours = [0, replan_freq, 2*replan_freq, ...] while h < ETA
RECURSIVE DecisionHours(_, _, _)
DecisionHours(ETA, replan_freq, h) ==
    IF h * Hour < ETA
    THEN <<h>> \o DecisionHours(ETA, replan_freq, h + replan_freq)
    ELSE <<>>

\* _pick_sample_hour: the largest available s <= int(elapsed_time), else
\* the first of the (ascending) list
PickSampleHour(available, elapsed_time) ==
    LET elapsed_int == elapsed_time \div Hour
        candidates == {j \in 1..Len(available) : available[j] <= elapsed_int}
    IN  IF candidates # {}
        THEN CHOOSE s \in {available[j] : j \in candidates} :
                 \A j \in candidates : available[j] <= s
        ELSE available[1]

SubTransform_FromStart(tr, st, sample_hour) ==
    [ETA |-> tr.ETA - st.elapsed_time,
     num_nodes |-> tr.num_nodes,
     num_legs |-> tr.num_legs,
     speeds |-> tr.speeds,
     fcr |-> tr.fcr,
     distances |-> tr.distances,
     weather_grid |-> tr.weather_grids[sample_hour],
     max_forecast_hour |-> tr.max_forecast_hours[sample_hour],
     node_metadata |-> tr.node_metadata,
     time_offset |-> st.elapsed_time]

\* the remaining-voyage instance handed to the DP at one decision point
SubTransform(tr, st, sample_hour) ==
    LET remaining_legs == tr.num_legs - st.current_node_idx
    IN  [ETA |-> tr.ETA - st.elapsed_time,
         num_nodes |-> remaining_legs + 1,
         num_legs |-> remaining_legs,
         speeds |-> tr.speeds,
         fcr |-> tr.fcr,
         distances |-> SubSeq(tr.distances, st.current_node_idx + 1, tr.num_legs),
         weather_grid |-> tr.weather_grids[sample_hour],
         max_forecast_hour |-> tr.max_forecast_hours[sample_hour],
         node_metadata |-> SubSeq(tr.node_metadata, st.current_node_idx + 1,
                                  tr.num_nodes),
         time_offset |-> st.elapsed_time]

\* a test that stops before the first leg of a non-terminal epoch
StopCommit_Eager(is_last, sub_elapsed, time_budget) ==
    ~is_last /\ sub_elapsed >= 0

\* if not is_last and sub_elapsed >= time_budget: break
StopCommit(is_last, sub_elapsed, time_budget) ==
    ~is_last /\ sub_elapsed >= time_budget

Remap_Local(leg, current_node_idx) == leg

\* remapped = dict(leg); remapped["leg"] = leg["leg"] + current_node_idx
Remap(leg, current_node_idx) ==
    [leg EXCEPT !.leg = leg.leg + current_node_idx]

\* the legs committed this round, re-indexed into the global frame
RECURSIVE LegsThisRound(_, _, _, _, _, _)
LegsThisRound(schedule, j, is_last, time_budget, current_node_idx, sub_elapsed) ==
    IF j > Len(schedule) \/ StopCommit(is_last, sub_elapsed, time_budget)
    THEN <<>>
    ELSE <<Remap(schedule[j], current_node_idx)>>
         \o LegsThisRound(schedule, j + 1, is_last, time_budget,
                          current_node_idx, sub_elapsed + schedule[j].time_h)

RhInit ==
    [dp_idx |-> 0, current_node_idx |-> 0, elapsed_time |-> 0,
     elapsed_fuel |-> 0, committed_legs |-> <<>>, decision_log |-> <<>>,
     running |-> TRUE]

\* the sub-DP found no plan: log the decision point and break
RhInfeasible(st, nominal_hour, sample_hour, dp_result) ==
    [st EXCEPT
       !.running = FALSE,
       !.decision_log = Append(@,
           [decision_hour |-> nominal_hour,
            actual_hour |-> Round4(st.elapsed_time),
            sample_hour |-> sample_hour,
            node_idx |-> st.current_node_idx,
            legs_committed |-> 0,
            elapsed_fuel_kg |-> Round4(st.elapsed_fuel),
            elapsed_time_h |-> Round4(st.elapsed_time),
            dp_status |-> dp_result.status])]

\* the update that advances the clock and the fuel by the totals of the
\* whole sub-plan instead of those of the committed legs
RhCommit_WholePlan(tr, st, nominal_hour, sample_hour, dp_result, legs) ==
    LET sub_elapsed == dp_result.planned_time_h
        sub_fuel == dp_result.planned_fuel_kg
    IN  [dp_idx |-> st.dp_idx + 1,
         current_node_idx |-> st.current_node_idx + Len(legs),
         elapsed_time |-> st.elapsed_time + sub_elapsed,
         elapsed_fuel |-> st.elapsed_fuel + sub_fuel,
         committed_legs |-> st.committed_legs \o legs,
         decision_log |-> Append(st.decision_log,
               [decision_hour |-> nominal_hour,
                actual_hour |-> Round4(st.elapsed_time),
                sample_hour |-> sample_hour,
                node_idx |-> st.current_node_idx,
                legs_committed |-> Len(legs),
                elapsed_fuel_kg |-> Round4(st.elapsed_fuel + sub_fuel),
                elapsed_time_h |-> Round4(st.elapsed_time + sub_elapsed),
                remaining_legs |-> tr.num_legs - st.current_node_idx - Len(legs),
                remaining_eta_h |-> Round4(tr.ETA - st.elapsed_time - sub_elapsed),
                dp_planned_fuel_kg |-> Round4(dp_result.planned_fuel_kg),
                dp_planned_time_h |-> Round4(dp_result.planned_time_h),
                dp_status |-> dp_result.status]),
         running |-> TRUE]

\* committed_legs.extend(legs_this_round), step 5 and the log entry
RhCommit(tr, st, nominal_hour, sample_hour, dp_result, legs) ==
    LET sub_elapsed == SumSeq(legs, "time_h")
        sub_fuel == SumSeq(legs, "fuel_kg")
    IN  [dp_idx |-> st.dp_idx + 1,
         current_node_idx |-> st.current_node_idx + Len(legs),
         elapsed_time |-> st.elapsed_time + sub_elapsed,
         elapsed_fuel |-> st.elapsed_fuel + sub_fuel,
         committed_legs |-> st.committed_legs \o legs,
         decision_log |-> Append(st.decision_log,
               [decision_hour |-> nominal_hour,
                actual_hour |-> Round4(st.elapsed_time),
                sample_hour |-> sample_hour,
                node_idx |-> st.current_node_idx,
                legs_committed |-> Len(legs),
                elapsed_fuel_kg |-> Round4(st.elapsed_fuel + sub_fuel),
                elapsed_time_h |-> Round4(st.elapsed_time + sub_elapsed),
                remaining_legs |-> tr.num_legs - st.current_node_idx - Len(legs),
                remaining_eta_h |-> Round4(tr.ETA - st.elapsed_time - sub_elapsed),
                dp_planned_fuel_kg |-> Round4(dp_result.planned_fuel_kg),
                dp_planned_time_h |-> Round4(dp_result.planned_time_h),
                dp_status |-> dp_result.status]),
         running |-> TRUE]

\* steps 3-5 on the sub-DP's result: stop if it found no plan, else
\* commit the legs that fit the time budget of this decision point
RhExecute(tr, st, decision_hours, sample_hour, dp_result) ==
    LET nominal_hour == decision_hours[st.dp_idx + 1]
        is_last == st.dp_idx + 1 >= Len(decision_hours)
        time_budget == IF is_last THEN 0
                       ELSE (decision_hours[st.dp_idx + 2] - nominal_hour) * Hour
    IN  IF dp_result.status \notin {"Optimal", "Feasible"}
        THEN RhInfeasible(st, nominal_hour, sample_hour, dp_result)
        ELSE RhCommit(tr, st, nominal_hour, sample_hour, dp_result,
                      LegsThisRound(dp_result.speed_schedule, 1, is_last,
                                    time_budget, st.current_node_idx, 0))

\* steps 2-3: build the sub-voyage and run the DP on it
RhReplan(tr, dt, st, decision_hours, sample_hour) ==
    RhExecute(tr, st, decision_hours, sample_hour,
              DpOptimize(SubTransform(tr, st, sample_hour), dt))

\* one pass of the body of "for dp_idx, nominal_hour in enumerate(...)"
RhEpochStep(tr, rf, dt, st) ==
    IF st.current_node_idx >= tr.num_legs \/ tr.ETA - st.elapsed_time <= 0
    THEN [st EXCEPT !.running = FALSE]
    ELSE RhReplan(tr, dt, st, DecisionHours(tr.ETA, rf, 0),
                  PickSampleHour(tr.available_sample_hours, st.elapsed_time))

RhLoopDone(tr, rf, st) ==
    ~st.running \/ st.dp_idx >= Len(DecisionHours(tr.ETA, rf, 0))

RhStatus_AlwaysOptimal(tr, st) == "Optimal"

\* status = "Optimal" if current_node_idx >= num_legs else "Feasible"
RhStatus(tr, st) ==
    IF st.current_node_idx >= tr.num_legs THEN "Optimal" ELSE "Feasible"

RhResult(tr, st) ==
    [status |-> RhStatus(tr, st),
     planned_fuel_kg |-> SumSeq(st.committed_legs, "fuel_kg"),
     planned_time_h |-> SumSeq(st.committed_legs, "time_h"),
     speed_schedule |-> st.committed_legs,
     solver |-> "bellman_dp_rh",
     decision_points |-> st.decision_log]

\* ------------------------------------------------------------------------
\* Transforms (dynamic_det/transform.py, dynamic_rh/transform.py)
\* nodes = "all", weather_source = "predicted", time_windows = "all"
\* ------------------------------------------------------------------------
\* speeds = [min_speed + k * granularity for k in range(num_speeds)]
SpeedGrid(min_speed, max_speed, granularity) ==
    LET num_speeds == RoundHalfEven(max_speed - min_speed, granularity) \div granularity + 1
    IN  [k \in 1..num_speeds |-> min_speed + (k - 1) * granularity]

LegDistances(metadata) ==
    [i \in 1..(Len(metadata) - 1) |->
        Max(metadata[i + 1].distance_from_start_nm - metadata[i].distance_from_start_nm, 0)]

NodeMetadata(metadata) ==
    [i \in 1..Len(metadata) |->
        [node_id |-> metadata[i].node_id, segment |-> metadata[i].segment]]

\* weather_grid[node_id][forecast_hour] from the rows of active nodes
WeatherGrid(rows, active) ==
    [nid \in {r.node_id : r \in rows} \cap active |->
        [fh \in {r.forecast_hour : r \in {q \in rows : q.node_id = nid}} |->
            (CHOOSE r \in rows : r.node_id = nid /\ r.forecast_hour = fh).wx]]

MaxForecastHour(rows, active) ==
    LET hs == {r.forecast_hour : r \in {q \in rows : q.node_id \in active}} \cup {0}
    IN  CHOOSE h \in hs : \A g \in hs : g <= h

\* predicted rows of one sample hour, capped at max_forecast_horizon if set
DetRows(st, c) ==
    LET predicted == {r \in st.predicted_weather : r.sample_hour = c.forecast_origin}
    IN  IF c.max_forecast_horizon # None
        THEN {r \in predicted : r.forecast_hour <= c.max_forecast_horizon}
        ELSE predicted

DetTransform(st, c) ==
    LET active == {st.metadata[i].node_id : i \in 1..Len(st.metadata)}
        speeds == SpeedGrid(c.speed_range_knots[1], c.speed_range_knots[2],
                            c.speed_granularity)
    IN  [ETA |-> c.eta_hours * Hour,
         num_nodes |-> Len(st.metadata),
         num_legs |-> Len(st.metadata) - 1,
         speeds |-> speeds,
         fcr |-> [k \in DOMAIN speeds |-> calculate_fuel_consumption_rate(ToFine(speeds[k]))],
         distances |-> LegDistances(st.metadata),
         weather_grid |-> WeatherGrid(DetRows(st, c), active),
         max_forecast_hour |-> MaxForecastHour(DetRows(st, c), active),
         node_metadata |-> NodeMetadata(st.metadata),
         time_offset |-> 0]

RECURSIVE SortedSeq(_)
SortedSeq(S) ==
    IF S = {} THEN <<>>
    ELSE LET m == CHOOSE x \in S : \A y \in S : x <= y
         IN  <<m>> \o SortedSeq(S \ {m})

\* the rows the RH transform loads for sample hour sh
RhRows(st, c, sh) == {r \in st.predicted_weather : r.sample_hour = sh}

RhTransform(st, c) ==
    LET active == {st.metadata[i].node_id : i \in 1..Len(st.metadata)}
        speeds == SpeedGrid(c.speed_range_knots[1], c.speed_range_knots[2],
                            c.speed_granularity)
        hours == {r.sample_hour : r \in st.predicted_weather}
    IN  [ETA |-> c.eta_hours * Hour,
         num_nodes |-> Len(st.metadata),
         num_legs |-> Len(st.metadata) - 1,
         speeds |-> speeds,
         fcr |-> [k \in DOMAIN speeds |-> calculate_fuel_consumption_rate(ToFine(speeds[k]))],
         distances |-> LegDistances(st.metadata),
         node_metadata |-> NodeMetadata(st.metadata),
         weather_grids |-> [sh \in hours |-> WeatherGrid(RhRows(st, c, sh), active)],
         max_forecast_hours |-> [sh \in hours |-> MaxForecastHour(RhRows(st, c, sh), active)],
         available_sample_hours |-> SortedSeq(hours)]

\* ------------------------------------------------------------------------
\* Static LP tier (static_det/transform.py, static_det/optimize.py)
\* ------------------------------------------------------------------------
\* read_actual(hdf5_path, sample_hour): node_id -> weather of that snapshot
ReadActual(st, sample_hour) ==
    IF sample_hour \in DOMAIN st.actual_weather
    THEN st.actual_weather[sample_hour] ELSE <<>>

RECURSIVE SumOver(_, _)
SumOver(S, f) ==
    IF S = {} THEN 0
    ELSE LET x == CHOOSE y \in S : TRUE IN f[x] + SumOver(S \ {x}, f)

\* _segment_weather: the mean over the nodes of a segment (the nodes of a
\* segment share the direction of the current, so the circular mean of the
\* directions is that direction)
SegmentWeather(st, weather, seg) ==
    LET nodes == {st.metadata[i].node_id : i \in
                     {j \in 1..Len(st.metadata) : st.metadata[j].segment = seg}}
                 \cap DOMAIN weather
        n == Cardinality(nodes)
    IN  IF n = 0 THEN Calm
        ELSE [beaufort_number |->
                 RoundHalfEven(SumOver(nodes, [x \in nodes |-> weather[x].beaufort_number]), n)
                     \div n,
              current |-> SumOver(nodes, [x \in nodes |-> weather[x].current]) \div n]

\* np.linspace(min_speed, max_speed, num_speeds)
Linspace(min_speed, max_speed, num_speeds) ==
    [k \in 1..num_speeds |->
        IF num_speeds = 1 THEN min_speed
        ELSE min_speed + ((k - 1) * (max_speed - min_speed)) \div (num_speeds - 1)]

Originals(metadata) == SelectSeq(metadata, LAMBDA m : m.is_original)

StaticTransform(st, c) ==
    LET originals == Originals(st.metadata)
        num_segments == Len(originals) - 1
        weather == ReadActual(st, c.weather_snapshot)
        speeds == Linspace(c.speed_range_knots[1], c.speed_range_knots[2], c.speed_choices)
        sog_matrix == [i \in 1..num_segments |-> [k \in DOMAIN speeds |->
                          calculate_speed_over_ground(speeds[k],
                              SegmentWeather(st, weather, i - 1))]]
    IN  [ETA |-> c.eta_hours * Hour,
         num_segments |-> num_segments,
         num_speeds |-> c.speed_choices,
         distances |-> [i \in 1..num_segments |->
                           originals[i + 1].distance_from_start_nm
                             - originals[i].distance_from_start_nm],
         speeds |-> speeds,
         fcr |-> [k \in DOMAIN speeds |-> calculate_fuel_consumption_rate(ToFine(speeds[k]))],
         sog_matrix |-> sog_matrix,
         sog_lower |-> [i \in 1..num_segments |->
                           MinOfSet({sog_matrix[i][k] : k \in DOMAIN speeds})],
         sog_upper |-> [i \in 1..num_segments |->
                           MaxOfSet({sog_matrix[i][k] : k \in DOMAIN speeds})]]

\* distances[i] / sog[i][k] and distances[i] * fcr[k] / sog[i][k]
SegTime(tr, i, k) == DivMul(tr.distances[i] * Hour, Knot, tr.sog_matrix[i][k])
SegFuel(tr, i, k) == MulDiv(tr.fcr[k], SegTime(tr, i, k), 10^Decimals)

\* the assignments without the ETA constraint: one speed per segment
LpFeasible_NoEta(tr) == [1..tr.num_segments -> 1..tr.num_speeds]

\* the assignments x with one speed per segment that meet the ETA
\* constraint and the SOG bounds; terms with sog <= 0 are left out of the
\* sums
LpFeasible(tr) ==
    {sel \in [1..tr.num_segments -> 1..tr.num_speeds] :
        /\ SumOver({i \in 1..tr.num_segments : tr.sog_matrix[i][sel[i]] > 0},
                   [i \in 1..tr.num_segments |-> SegTime(tr, i, sel[i])]) <= tr.ETA
        /\ \A i \in 1..tr.num_segments :
              /\ tr.sog_matrix[i][sel[i]] >= tr.sog_lower[i]
              /\ tr.sog_matrix[i][sel[i]] <= tr.sog_upper[i]}

LpObjective(tr, sel) ==
    SumOver({i \in 1..tr.num_segments : tr.sog_matrix[i][sel[i]] > 0},
            [i \in 1..tr.num_segments |-> SegFuel(tr, i, sel[i])])

\* the optimal assignments; the solver returns one of them
LpSolutions(tr) ==
    {sel \in LpFeasible(tr) :
        \A other \in LpFeasible(tr) : LpObjective(tr, sel) <= LpObjective(tr, other)}

LpSchedule(tr, selected) ==
    [i \in 1..tr.num_segments |->
        [segment |-> i - 1,
         sws_knots |-> tr.speeds[selected[i]],
         sog_knots |-> tr.sog_matrix[i][selected[i]],
         distance_nm |-> tr.distances[i],
         time_h |-> SegTime(tr, i, selected[i]),
         fuel_kg |-> SegFuel(tr, i, selected[i]),
         fcr_kg_h |-> tr.fcr[selected[i]]]]

\* static_det optimize(): every result the solver may return
LpOptimize(tr) ==
    IF LpSolutions(tr) = {}
    THEN {[status |-> "Infeasible"]}
    ELSE {[status |-> "Optimal",
           planned_fuel_kg |-> SumSeq(LpSchedule(tr, sel), "fuel_kg"),
           planned_time_h |-> SumSeq(LpSchedule(tr, sel), "time_h"),
           speed_schedule |-> LpSchedule(tr, sel),
           solver |-> "pulp"] : sel \in LpSolutions(tr)}

\* ------------------------------------------------------------------------
\* Voyage simulator (shared/simulation.py) and the inverse speed search
\* (shared/physics.py calculate_sws_from_sog)
\* ------------------------------------------------------------------------
Unset == 2^30                      \* best_error = float("inf")

\* the bisection loop; speeds in fine units, n iterations left
RECURSIVE Bisect(_, _, _, _, _, _, _)
RECURSIVE BisectStep(_, _, _, _, _, _, _, _, _)
\* one iteration, on the SOG calculated at test_sws
BisectStep(target_sog, wx, min_sws, max_sws, best_sws, best_error, n, test_sws, calculated_sog) ==
    LET error == Abs(calculated_sog - target_sog)
        better == error < best_error
        sws == IF better THEN test_sws ELSE best_sws
        err == IF better THEN error ELSE best_error
        lo == IF calculated_sog < target_sog THEN test_sws ELSE min_sws
        hi == IF calculated_sog < target_sog THEN max_sws ELSE test_sws
    IN  IF error <= Fine \div 1000 \/ hi - lo <= Fine \div 10000
        THEN [best_sws |-> sws, best_error |-> err]
        ELSE Bisect(target_sog, wx, lo, hi, sws, err, n - 1)

Bisect(target_sog, wx, min_sws, max_sws, best_sws, best_error, n) ==
    IF n = 0 THEN [best_sws |-> best_sws, best_error |-> best_error]
    ELSE BisectStep(target_sog, wx, min_sws, max_sws, best_sws, best_error, n,
                    (min_sws + max_sws) \div 2,
                    SpeedOverGround((min_sws + max_sws) \div 2, wx, Fine))

\* if best_sws is not None and best_error < 0.1: best_sws, else target_sog
SearchResult(target_sog, r) ==
    IF r.best_sws # Unset /\ r.best_error <= Fine \div 10
    THEN r.best_sws ELSE target_sog

\* the search over [5, 20] knots, moved to [1, 5] or [20, 30] when the
\* target lies outside the SOG range of [5, 20]: best_sws and best_error
\* as the loop leaves them
SearchOutcome(target_sog, wx, min_sog, max_sog) ==
    LET min_sws == IF target_sog < min_sog THEN Fine
                   ELSE IF target_sog > max_sog THEN 20 * Fine ELSE 5 * Fine
        max_sws == IF target_sog < min_sog THEN 5 * Fine
                   ELSE IF target_sog > max_sog THEN 30 * Fine ELSE 20 * Fine
    IN  Bisect(target_sog, wx, min_sws, max_sws, Unset, Unset, 50)

SearchBetween(target_sog, wx, min_sog, max_sog) ==
    SearchResult(target_sog, SearchOutcome(target_sog, wx, min_sog, max_sog))

\* the speed through water, in fine units, that reaches target_sog (given
\* in fine units) under wx; target_sog itself if the search fails
calculate_sws_from_sog(target_sog, wx) ==
    SearchBetween(target_sog, wx, SpeedOverGround(5 * Fine, wx, Fine),
                  SpeedOverGround(20 * Fine, wx, Fine))

\* a lookup that goes by segment whatever the entries of the schedule hold
TargetSog_BySegment(speed_schedule, node_a) ==
    LET hits == {j \in 1..Len(speed_schedule) :
                    speed_schedule[j].segment = node_a.segment}
    IN  IF hits = {} THEN None
        ELSE speed_schedule[MaxOfSet(hits)].sog_knots

\* leg_sog / seg_sog: the target SOG of the leg leaving node_a, or None
TargetSog(speed_schedule, node_a) ==
    LET by_node == speed_schedule # <<>> /\ "node_id" \in DOMAIN speed_schedule[1]
        hits == {j \in 1..Len(speed_schedule) :
                    IF by_node THEN speed_schedule[j].node_id = node_a.node_id
                    ELSE speed_schedule[j].segment = node_a.segment}
    IN  IF hits = {} THEN None
        ELSE speed_schedule[MaxOfSet(hits)].sog_knots

\* abs(clamped_sws - required_sws) > 0.01, in fine units
Clamped(clamped_sws, required_sws) ==
    Abs(clamped_sws - required_sws) > Fine \div 100

\* rows = [], cum_distance = cum_time = cum_fuel = 0.0, sws_violations = 0
SimStart ==
    [rows |-> <<>>, cum_distance |-> 0, cum_time |-> 0, cum_fuel |-> 0,
     sws_violations |-> 0]

\* cum_time += leg_time, wrongly leaving out the leg just sailed
CumTime_Stale(acc, leg_time) == acc.cum_time

\* cum_time += leg_time
CumTime(acc, leg_time) == acc.cum_time + leg_time

\* the time-series row of a leg, appended after the running totals moved
LegRow(acc, node_a, dist, target_sog, required_sws, clamped_sws, actual_sog, leg_time, leg_fuel) ==
    [node_id |-> node_a.node_id,
     segment |-> node_a.segment,
     planned_sog_knots |-> target_sog,
     actual_sog_knots |-> actual_sog,
     planned_sws_knots |-> required_sws,
     actual_sws_knots |-> clamped_sws,
     distance_nm |-> dist,
     time_h |-> leg_time,
     fuel_mt |-> leg_fuel,
     cum_distance_nm |-> acc.cum_distance + dist,
     cum_time_h |-> CumTime(acc, leg_time),
     cum_fuel_mt |-> acc.cum_fuel + leg_fuel,
     beaufort |-> node_a.wx.beaufort_number,
     current_knots |-> node_a.wx.current]

\* the loop state after the leg: counters moved, row appended
AddLeg(acc, node_a, dist, target_sog, required_sws, clamped_sws, actual_sog, leg_time, leg_fuel) ==
    [rows |-> Append(acc.rows,
                     LegRow(acc, node_a, dist, target_sog, required_sws,
                            clamped_sws, actual_sog, leg_time, leg_fuel)),
     cum_distance |-> acc.cum_distance + dist,
     cum_time |-> CumTime(acc, leg_time),
     cum_fuel |-> acc.cum_fuel + leg_fuel,
     sws_violations |-> acc.sws_violations
                        + (IF Clamped(clamped_sws, required_sws) THEN 1 ELSE 0)]

\* leg_fuel = fcr * leg_time
BurnLeg(acc, node_a, dist, target_sog, required_sws, clamped_sws, actual_sog, leg_time) ==
    AddLeg(acc, node_a, dist, target_sog, required_sws, clamped_sws,
           actual_sog, leg_time,
           MulDiv(calculate_fuel_consumption_rate(clamped_sws), leg_time,
                  10^Decimals))

\* leg_time = dist / actual_sog
TimeLeg(acc, node_a, dist, target_sog, required_sws, clamped_sws, actual_sog) ==
    BurnLeg(acc, node_a, dist, target_sog, required_sws, clamped_sws,
            actual_sog, DivMul(dist * Hour, Knot, actual_sog))

\* the SOG of a clamped engine speed, wrongly taken to be the target
ActualSog_Target(node_a, target_sog, required_sws, clamped_sws) == target_sog

\* a clamped engine speed gives its own SOG (at least 0.1), else the target
ActualSog(node_a, target_sog, required_sws, clamped_sws) ==
    IF Clamped(clamped_sws, required_sws)
    THEN Max(calculate_speed_over_ground((clamped_sws * Knot) \div Fine,
                                         node_a.wx),
             Knot \div 10)
    ELSE target_sog

SailLeg(acc, node_a, dist, target_sog, required_sws, clamped_sws) ==
    TimeLeg(acc, node_a, dist, target_sog, required_sws, clamped_sws,
            ActualSog(node_a, target_sog, required_sws, clamped_sws))

\* clamped_sws = max(min_speed, min(max_speed, required_sws))
ClampLeg(acc, node_a, dist, target_sog, required_sws, c) ==
    SailLeg(acc, node_a, dist, target_sog, required_sws,
            Max(ToFine(c.speed_range_knots[1]),
                Min(ToFine(c.speed_range_knots[2]), required_sws)))

\* one pass of the loop body: the leg that leaves merged row idx
SimulateLeg(speed_schedule, merged, idx, c, acc) ==
    LET node_a == merged[idx]
        target_sog == TargetSog(speed_schedule, node_a)
        dist == merged[idx + 1].distance_from_start_nm - node_a.distance_from_start_nm
    IN  IF target_sog = None \/ dist <= 0 THEN acc
        ELSE ClampLeg(acc, node_a, dist, target_sog,
                      calculate_sws_from_sog(ToFine(target_sog), node_a.wx), c)

RECURSIVE SimulateLegs(_, _, _, _, _)
SimulateLegs(speed_schedule, merged, idx, c, acc) ==
    IF idx >= Len(merged) THEN acc
    ELSE SimulateLegs(speed_schedule, merged, idx + 1, c,
                      SimulateLeg(speed_schedule, merged, idx, c, acc))

\* metadata.merge(weather, on="node_id", how="left"), missing fields 0.0
Merged(st, sample_hour) ==
    LET weather == ReadActual(st, sample_hour)
    IN  [i \in 1..Len(st.metadata) |->
            [node_id |-> st.metadata[i].node_id,
             segment |-> st.metadata[i].segment,
             distance_from_start_nm |-> st.metadata[i].distance_from_start_nm,
             wx |-> IF st.metadata[i].node_id \in DOMAIN weather
                    THEN weather[st.metadata[i].node_id] ELSE Calm]]

\* the record simulate_voyage returns once the loop has ended in acc
VoyageResult(speed_schedule, c, acc) ==
    [total_fuel_mt |-> acc.cum_fuel,
     total_time_h |-> acc.cum_time,
     arrival_deviation_h |-> acc.cum_time - c.eta_hours * Hour,
     speed_changes |-> Cardinality({i \in 2..Len(speed_schedule) :
         speed_schedule[i].sog_knots # speed_schedule[i - 1].sog_knots}),
     sws_violations |-> acc.sws_violations,
     co2_emissions_mt |-> (acc.cum_fuel * 317) \div 100,
     time_series |-> acc.rows]

simulate_voyage(speed_schedule, st, c, sample_hour) ==
    VoyageResult(speed_schedule, c,
                 SimulateLegs(speed_schedule, Merged(st, sample_hour), 1, c,
                              SimStart))

\* ------------------------------------------------------------------------
\* Metrics and the result record (shared/metrics.py)
\* ------------------------------------------------------------------------
\* the keys compute_result_metrics and build_result_json subscript
MetricsReads == {"total_fuel_kg", "total_time_h"}
ResultReads == {"total_fuel_kg", "total_time_h", "arrival_deviation_h",
                "co2_emissions_kg"}

compute_result_metrics(plan, sim, total_distance_nm) ==
    [fuel_gap_percent |->
        IF plan.planned_fuel_kg > 0
        THEN ((sim.total_fuel_kg - plan.planned_fuel_kg) * 100) \div plan.planned_fuel_kg
        ELSE 0,
     fuel_per_nm |-> IF total_distance_nm > 0
                     THEN sim.total_fuel_kg \div total_distance_nm ELSE 0,
     avg_sog_knots |-> IF sim.total_time_h > 0
                       THEN DivMul(total_distance_nm * Hour, Knot, sim.total_time_h)
                       ELSE 0]

build_result_json(approach, plan, sim, metrics) ==
    [approach |-> approach,
     planned |-> [total_fuel_kg |-> Round4(plan.planned_fuel_kg),
                  voyage_time_h |-> Round4(plan.planned_time_h),
                  speed_schedule |-> plan.speed_schedule,
                  solver_status |-> plan.status],
     simulated |-> [total_fuel_kg |-> Round4(sim.total_fuel_kg),
                    voyage_time_h |-> Round4(sim.total_time_h),
                    arrival_deviation_h |-> Round4(sim.arrival_deviation_h),
                    speed_changes |-> sim.speed_changes,
                    co2_emissions_kg |-> Round4(sim.co2_emissions_kg)],
     metrics |-> metrics]

\* ------------------------------------------------------------------------
\* Inputs: the weather store and the configuration
\* ------------------------------------------------------------------------
Approaches == {"static_det", "dynamic_det", "dynamic_rh"}
NowCurrents == {0, 2 * Knot}
LaterCurrents == {-2 * Knot, 0}
LateCurrents == {-4 * Knot, 0}
LegLengths == {10, 20}
LongRoute == <<1000>>
Routes == UNION {[1..n -> LegLengths] : n \in 1..MaxLegs} \cup {LongRoute}

RECURSIVE CumDist(_, _)
CumDist(route, i) == IF i = 0 THEN 0 ELSE CumDist(route, i - 1) + route[i]

\* waypoints.py: every node is an original waypoint of its own segment,
\* the last one belongs to the segment before it
Metadata(route) ==
    [i \in 1..(Len(route) + 1) |->
        [node_id |-> i - 1,
         distance_from_start_nm |-> CumDist(route, i - 1),
         is_original |-> TRUE,
         segment |-> IF i - 1 < Len(route) THEN i - 1 ELSE i - 2]]

Wx(c) == [beaufort_number |-> 0, current |-> c]

\* sample hour 0 forecasts current a for hour 0 and b afterwards; a second
\* snapshot, issued at hour 1, forecasts current late from hour 1 on
Predicted(route, a, b, late) ==
    {[node_id |-> n, forecast_hour |-> fh, sample_hour |-> 0,
      wx |-> Wx(IF fh = 0 THEN a ELSE b)] : n \in 0..Len(route), fh \in 0..MaxETA}
    \cup
    (IF late = None THEN {}
     ELSE {[node_id |-> n, forecast_hour |-> fh, sample_hour |-> 1, wx |-> Wx(late)]
              : n \in 0..Len(route), fh \in 1..MaxETA})

Stores ==
    {[metadata |-> Metadata(route),
      predicted_weather |-> Predicted(route, a, b, late),
      actual_weather |-> [sh \in {0} |-> [n \in 0..Len(route) |-> Wx(a)]]]
        : route \in Routes, a \in NowCurrents, b \in LaterCurrents,
          late \in LateCurrents \cup {None}}

Configs ==
    {c \in [approach : Approaches,
            eta_hours : 1..MaxETA,
            speed_range_knots : {<<8 * Knot, 12 * Knot>>},
            speed_granularity : {4 * Knot},
            time_granularity : {Hour},
            forecast_origin : {0},
            max_forecast_horizon : {None, 0},
            replan_frequency_hours : {1, 2, MaxETA},
            weather_snapshot : {0},
            speed_choices : {2}] :
        /\ c.approach # "dynamic_rh" => c.replan_frequency_hours = 1
        /\ c.approach = "static_det" => c.max_forecast_horizon = None}

\* ------------------------------------------------------------------------
\* One tier run (cli.py): transform -> optimize -> simulate -> metrics
\* ------------------------------------------------------------------------
\* proc holds the local variables of a running collector or store call
VARIABLES config, store, pc, t_out, rh, sub, planned, simulated, result, proc

vars == <<config, store, pc, t_out, rh, sub, planned, simulated, result, proc>>

Init ==
    /\ config \in Configs
    /\ store \in Stores
    /\ config.approach # "dynamic_rh" =>
           \A r \in store.predicted_weather : r.sample_hour = config.forecast_origin
    /\ pc = "transform"
    /\ t_out = NULL
    /\ rh = NULL
    /\ sub = NULL
    /\ planned = NULL
    /\ simulated = NULL
    /\ result = NULL
    /\ proc = NULL

TransformStaticDet ==
    /\ pc = "transform" /\ config.approach = "static_det"
    /\ t_out' = StaticTransform(store, config)
    /\ pc' = "optimize"
    /\ UNCHANGED <<config, store, rh, sub, planned, simulated, result, proc>>

OptimizeStaticDet ==
    /\ pc = "optimize" /\ config.approach = "static_det"
    /\ planned' \in LpOptimize(t_out)
    /\ pc' = "optimized"
    /\ UNCHANGED <<config, store, t_out, rh, sub, simulated, result, proc>>

TransformDynamicDet ==
    /\ pc = "transform" /\ config.approach = "dynamic_det"
    /\ t_out' = DetTransform(store, config)
    /\ pc' = "optimize"
    /\ UNCHANGED <<config, store, rh, sub, planned, simulated, result, proc>>

OptimizeDynamicDet ==
    /\ pc = "optimize" /\ config.approach = "dynamic_det"
    /\ planned' = DpOptimize(t_out, config.time_granularity)
    /\ sub' = [transform |-> t_out, result |-> planned', epoch |-> 0]
    /\ pc' = "optimized"
    /\ UNCHANGED <<config, store, t_out, rh, simulated, result, proc>>

TransformDynamicRh ==
    /\ pc = "transform" /\ config.approach = "dynamic_rh"
    /\ t_out' = RhTransform(store, config)
    /\ rh' = RhInit
    /\ pc' = "rh_loop"
    /\ UNCHANGED <<config, store, sub, planned, simulated, result, proc>>

RhEpoch ==
    /\ pc = "rh_loop"
    /\ ~RhLoopDone(t_out, config.replan_frequency_hours, rh)
    /\ rh' = RhEpochStep(t_out, config.replan_frequency_hours,
                         config.time_granularity, rh)
    /\ sub' = IF rh.current_node_idx >= t_out.num_legs
                 \/ t_out.ETA - rh.elapsed_time <= 0
              THEN sub
              ELSE LET tr == SubTransform(t_out, rh,
                                PickSampleHour(t_out.available_sample_hours,
                                               rh.elapsed_time))
                   IN  [transform |-> tr,
                        result |-> DpOptimize(tr, config.time_granularity),
                        epoch |-> rh.dp_idx]
    /\ UNCHANGED <<config, store, pc, t_out, planned, simulated, result, proc>>

RhReturn ==
    /\ pc = "rh_loop"
    /\ RhLoopDone(t_out, config.replan_frequency_hours, rh)
    /\ planned' = RhResult(t_out, rh)
    /\ pc' = "optimized"
    /\ UNCHANGED <<config, store, t_out, rh, sub, simulated, result, proc>>

\* the status test after optimize: static_det goes on only when Optimal,
\* the dynamic tiers when Optimal or Feasible
Proceeds(approach, status) ==
    IF approach = "static_det" THEN status = "Optimal"
    ELSE status \in {"Optimal", "Feasible"}

\* "if planned.get("status") ...: print(... aborting.); return"
CheckStatus ==
    /\ pc = "optimized"
    /\ pc' = IF Proceeds(config.approach, planned.status) THEN "simulate" ELSE "aborted"
    /\ UNCHANGED <<config, store, t_out, rh, sub, planned, simulated, result, proc>>

\* the snapshot of actual weather each tier hands to the simulator
SimulationHour(c) ==
    IF c.approach = "static_det" THEN c.weather_snapshot
    ELSE IF c.approach = "dynamic_det" THEN c.forecast_origin ELSE 0

Simulate ==
    /\ pc = "simulate"
    /\ simulated' = simulate_voyage(planned.speed_schedule, store, config,
                                    SimulationHour(config))
    /\ pc' = "metrics"
    /\ UNCHANGED <<config, store, t_out, rh, sub, planned, result, proc>>

\* compute_result_metrics, build_result_json, save_result; a key the
\* simulated block lacks raises KeyError and ends the run without a result
Metrics ==
    /\ pc = "metrics"
    /\ IF MetricsReads \cup ResultReads \subseteq DOMAIN simulated
       THEN /\ result' = build_result_json(config.approach, planned, simulated,
                             compute_result_metrics(planned, simulated,
                                                    SumSeq(t_out.distances, 1)))
            /\ pc' = "done"
       ELSE /\ result' = result
            /\ pc' = "KeyError"
    /\ UNCHANGED <<config, store, t_out, rh, sub, planned, simulated, proc>>

Next ==
    \/ TransformStaticDet
    \/ OptimizeStaticDet
    \/ CheckStatus
    \/ Simulate
    \/ Metrics
    \/ TransformDynamicDet
    \/ OptimizeDynamicDet
    \/ TransformDynamicRh
    \/ RhEpoch
    \/ RhReturn

Spec == Init /\ [][Next]_vars

\* the loop has an iteration to run: ENABLED <<RhEpoch>>_vars
RhEpochEnabled ==
    pc = "rh_loop" /\ ~RhLoopDone(t_out, config.replan_frequency_hours, rh)

\* the driver is a sequential loop: an iteration that can run does run
\* (weak fairness of RhEpoch, with its enabling condition written out),
\* and so does the return after the loop
RhFairSpec ==
    /\ Spec
    /\ ([]<>~RhEpochEnabled \/ []<><<RhEpoch>>_vars)
    /\ WF_vars(RhReturn)

\* ------------------------------------------------------------------------
\* The simulator on its own: simulate_voyage applied to a per-leg schedule
\* of target SOGs and the actual weather of one snapshot
\* ------------------------------------------------------------------------
SeaCurrents == {-4 * Knot, -2 * Knot, 0, 2 * Knot, 4 * Knot}
SeaStates == [beaufort_number : {0, 12}, current : SeaCurrents]
\* the SOGs a plan can ask for: a grid speed under a forecast current
TargetSogs == {v + c : v \in {8 * Knot, 12 * Knot}, c \in SeaCurrents}
SimRoutes == {<<10>>, <<10, 20>>}

\* a store whose only actual snapshot carries the sea states of seas
SimStore(route, seas) ==
    [metadata |-> Metadata(route),
     predicted_weather |-> {},
     actual_weather |-> [sh \in {0} |->
         [n \in 0..Len(route) |-> IF n < Len(route) THEN seas[n + 1] ELSE Calm]]]

\* a per-leg plan as the DP tiers hand it over: node_id and sog_knots
SimPlan(sogs) ==
    [status |-> "Optimal",
     speed_schedule |-> [i \in 1..Len(sogs) |->
                            [node_id |-> i - 1, sog_knots |-> sogs[i]]]]

SimInit ==
    /\ config \in {c \in Configs : /\ c.approach = "dynamic_det"
                                    /\ c.max_forecast_horizon = None
                                    /\ c.eta_hours = MaxETA}
    /\ \E route \in SimRoutes :
         /\ store \in {SimStore(route, seas) : seas \in [1..Len(route) -> SeaStates]}
         /\ planned \in {SimPlan(sogs) : sogs \in [1..Len(route) -> TargetSogs]}
    /\ pc = "simulate"
    /\ t_out = NULL
    /\ rh = NULL
    /\ sub = NULL
    /\ simulated = NULL
    /\ result = NULL
    /\ proc = NULL

SimSpec == SimInit /\ [][Simulate]_vars

\* ------------------------------------------------------------------------
\* The simulator on schedules that do not cover the route: per-leg
\* schedules (entries with node_id and segment, as the DP tiers emit) for
\* some of the nodes, per-segment schedules (entries with segment only, as
\* the LP emits) for some of the segments, the empty schedule, and routes
\* with two waypoints at the same distance.  All nodes but the last lie in
\* segment 0.
\* ------------------------------------------------------------------------
SkipRoutes == {<<10, 20>>, <<10, 0>>, <<0, 20>>}

SkipStore(route, seas) ==
    [SimStore(route, seas) EXCEPT
        !.metadata = [i \in 1..(Len(route) + 1) |->
                         [Metadata(route)[i] EXCEPT
                             !.segment = IF i <= Len(route) THEN 0 ELSE 1]]]

\* a schedule with one entry per node of nodes, all at the speed sog
LegPlan(nodes, sog) ==
    [status |-> "Optimal",
     speed_schedule |-> [j \in 1..Cardinality(nodes) |->
                            [node_id |-> SortedSeq(nodes)[j], segment |-> 0,
                             sog_knots |-> sog]]]

\* a schedule with one entry per segment of segments
SegmentPlan(segments, sog) ==
    [status |-> "Optimal",
     speed_schedule |-> [j \in 1..Cardinality(segments) |->
                            [segment |-> SortedSeq(segments)[j], sog_knots |-> sog]]]

SkipInit ==
    /\ config \in {c \in Configs : /\ c.approach = "dynamic_det"
                                    /\ c.max_forecast_horizon = None
                                    /\ c.eta_hours = MaxETA}
    /\ store \in {SkipStore(route, seas) :
                     route \in SkipRoutes,
                     seas \in [1..2 -> {Calm, Wx(-4 * Knot)}]}
    /\ planned \in {LegPlan(nodes, sog) :
                        nodes \in (SUBSET (0..2)) \ {{}}, sog \in {8 * Knot, 12 * Knot}}
                   \cup {SegmentPlan(segments, sog) :
                        segments \in SUBSET (0..1), sog \in {8 * Knot, 12 * Knot}}
    /\ pc = "simulate"
    /\ t_out = NULL
    /\ rh = NULL
    /\ sub = NULL
    /\ simulated = NULL
    /\ result = NULL
    /\ proc = NULL

SkipSpec == SkipInit /\ [][Simulate]_vars

\* ------------------------------------------------------------------------
\* The inverse speed search on its own: calculate_sws_from_sog applied to
\* the SOG that a still-water speed between 1 and 30 knots produces
\* ------------------------------------------------------------------------
\* still-water speeds from 1.0 to 30.0 knots in steps of half a knot
StillWaterSpeeds == {(k * Fine) \div 2 : k \in 2..60}

InverseInit ==
    /\ config \in {[ship_speed |-> v, weather |-> wx,
                     target_sog |-> SpeedOverGround(v, wx, Fine)]
                        : v \in StillWaterSpeeds, wx \in SeaStates}
    /\ pc = "call"
    /\ store = NULL
    /\ t_out = NULL
    /\ rh = NULL
    /\ sub = NULL
    /\ planned = NULL
    /\ simulated = NULL
    /\ result = NULL
    /\ proc = NULL

\* the returned SWS, and the SOG the forward physics gives it
RoundTrip(sws, wx) == [sws |-> sws, sog |-> SpeedOverGround(sws, wx, Fine)]

InvertSog ==
    /\ pc = "call"
    /\ result' = RoundTrip(calculate_sws_from_sog(config.target_sog, config.weather),
                           config.weather)
    /\ pc' = "returned"
    /\ UNCHANGED <<config, store, t_out, rh, sub, planned, simulated, proc>>

InverseSpec == InverseInit /\ [][InvertSog]_vars

\* ------------------------------------------------------------------------
\* The DP's weather lookup on its own: the lookup of the forward recursion
\* at a cell (node, t) and the lookup of the backtracking pass for the leg
\* that leaves that cell, over weather grids with missing forecast hours
\* ------------------------------------------------------------------------
GridHours == 0..3
QuerySlots == 0..4

\* node 0 with a forecast at the hours of H (the current names the hour);
\* no node at all when H is empty
LookupGrid(H) ==
    IF H = {} THEN <<>> ELSE (0 :> [h \in H |-> Wx((h + 1) * Knot)])

LookupInit ==
    /\ t_out \in {[weather_grid |-> LookupGrid(H),
                    time_offset |-> off,
                    max_forecast_hour |-> IF H = {} THEN 0 ELSE MaxOfSet(H)]
                        : H \in SUBSET GridHours, off \in {0, Hour}}
    /\ config \in [node_id : {0}, t : QuerySlots, time_granularity : {Hour}]
    /\ pc = "lookup"
    /\ store = NULL
    /\ rh = NULL
    /\ sub = NULL
    /\ planned = NULL
    /\ simulated = NULL
    /\ result = NULL
    /\ proc = NULL

\* wx as the forward loop reads it at cell (nid, t) and as the backtracking
\* loop reads it again at t_prev = t
Lookups(tr, nid, fh) ==
    [forecast_hour |-> fh,
     forward |-> LookupWeather(tr, nid, fh),
     backtrack |-> LookupWeather(tr, nid, fh)]

LookupBoth ==
    /\ pc = "lookup"
    /\ result' = Lookups(t_out, config.node_id,
                         ForecastHour(t_out, config.t * config.time_granularity))
    /\ pc' = "returned"
    /\ UNCHANGED <<config, store, t_out, rh, sub, planned, simulated, proc>>

LookupSpec == LookupInit /\ [][LookupBoth]_vars

\* ------------------------------------------------------------------------
\* A wind reading on its way from the API response to the physics: the
\* collector derives the Beaufort number (collect/collector.py
\* fetch_wind_data, shared/beaufort.py), the store keeps both fields, the
\* simulator replaces missing fields by their defaults
\* ------------------------------------------------------------------------
NaN == -1                          \* float("nan"), a missing reading
MaxWind == 130                     \* wind readings 0 .. MaxWind km/h

\* a < b on floats: False when either side is NaN
Less(a, b) == a # NaN /\ b # NaN /\ a < b

\* the thresholds 0.5, 1.6, ... 32.7 m/s, as wind_speed_kmh values in
\* hundredths of a km/h (wind_speed_ms = wind_speed_kmh / 3.6)
BeaufortThresholds ==
    <<180, 576, 1224, 1980, 2880, 3888, 5004, 6192, 7488, 8820, 10260, 11772>>

\* the chain with <= in place of <: a reading on a threshold stays in the
\* lower class
RECURSIVE BeaufortFrom_Inclusive(_, _)
BeaufortFrom_Inclusive(wind_speed_kmh, b) ==
    IF b = 12 THEN 12
    ELSE IF wind_speed_kmh = NaN \/ wind_speed_kmh <= BeaufortThresholds[b + 1] THEN b
    ELSE BeaufortFrom_Inclusive(wind_speed_kmh, b + 1)

\* the if / elif chain from Beaufort number b on, else: return 12
RECURSIVE BeaufortFrom(_, _)
BeaufortFrom(wind_speed_kmh, b) ==
    IF b = 12 THEN 12
    ELSE IF Less(wind_speed_kmh, BeaufortThresholds[b + 1]) THEN b
    ELSE BeaufortFrom(wind_speed_kmh, b + 1)

wind_speed_to_beaufort(wind_speed_kmh) == BeaufortFrom(wind_speed_kmh, 0)

\* _safe(val, default): default if val is NaN
Safe(val, default) == IF val = NaN THEN default ELSE val

\* the readings that are numbers, in hundredths of a km/h: whole km/h up to
\* MaxWind and the neighbourhood of every threshold
WindReadings ==
    {100 * k : k \in 0..MaxWind} \cup {BeaufortThresholds[i] + d : i \in 1..12, d \in {-1, 0, 1}}

WindInit ==
    /\ config \in [wind_speed_10m_kmh : {NaN} \cup WindReadings]
    /\ pc = "fetch"
    /\ store = NULL
    /\ t_out = NULL
    /\ rh = NULL
    /\ sub = NULL
    /\ planned = NULL
    /\ simulated = NULL
    /\ result = NULL
    /\ proc = NULL

\* fetch_wind_data and the append of the actual row
FetchWind ==
    /\ pc = "fetch"
    /\ store' = [wind_speed_10m_kmh |-> config.wind_speed_10m_kmh,
                 beaufort_number |-> wind_speed_to_beaufort(config.wind_speed_10m_kmh)]
    /\ pc' = "stored"
    /\ UNCHANGED <<config, t_out, rh, sub, planned, simulated, result, proc>>

\* simulate_voyage builds wx for the node from the stored row
SafeWeather ==
    /\ pc = "stored"
    /\ result' = [wind_speed_10m_kmh |-> Safe(store.wind_speed_10m_kmh, 0),
                  beaufort_number |-> Safe(store.beaufort_number, 0)]
    /\ pc' = "physics"
    /\ UNCHANGED <<config, store, t_out, rh, sub, planned, simulated, proc>>

WindNext == FetchWind \/ SafeWeather

WindSpec == WindInit /\ [][WindNext]_vars

\* ------------------------------------------------------------------------
\* The weather collector (collect/collector.py collect) in finite mode, its
\* signal handler, and the store it appends to (shared/hdf5_io.py).  The
\* process can be stopped at any step and started again on the same file.
\* ------------------------------------------------------------------------
MaxHours == 3                      \* collection.hours is 1 .. MaxHours
NumWaypoints == 2                  \* len(waypoints_df)

\* the positions of the loop, between which a signal can be delivered
Running == {"loop", "fetch", "append_predicted", "check", "wait", "next"}

\* create_hdf5: the file with empty weather tables
EmptyFile == [exists |-> TRUE, actual_weather |-> <<>>, predicted_weather |-> <<>>]

\* a store call that forgets the sample hours already in the file
get_completed_runs_Forgetful(st) == {}

\* the distinct sample_hour values of /actual_weather
get_completed_runs(st) ==
    {st.actual_weather[i].sample_hour : i \in 1..Len(st.actual_weather)}

\* next_hour = max(completed) + 1 if completed else 0
ResumeHour(completed) ==
    IF completed = {} THEN 0 ELSE MaxOfSet(completed) + 1

\* the locals of collect() when the loop is entered
CollectLocals(hours, completed) ==
    [hours |-> hours,
     completed |-> completed,
     next_hour |-> ResumeHour(completed),
     sample_hour |-> ResumeHour(completed),
     shutdown_requested |-> FALSE,
     actual_rows |-> <<>>,
     predicted_rows |-> <<>>,
     wp |-> 0]

CollectInit ==
    /\ config \in [hours : 1..MaxHours]
    /\ store = [exists |-> FALSE, actual_weather |-> <<>>, predicted_weather |-> <<>>]
    /\ pc = "idle"
    /\ proc = NULL
    /\ t_out = NULL
    /\ rh = NULL
    /\ sub = NULL
    /\ planned = NULL
    /\ simulated = NULL
    /\ result = NULL

\* collect() up to the loop: create the file if it is missing, read the
\* completed sample hours, install the signal handlers
StartCollect ==
    /\ pc \in {"idle", "returned", "stopped"}
    /\ store' = IF store.exists THEN store ELSE EmptyFile
    /\ proc' = CollectLocals(config.hours, get_completed_runs(store'))
    /\ pc' = "loop"
    /\ UNCHANGED <<config, t_out, rh, sub, planned, simulated, result>>

\* the head of the while loop: leave when all hours are done, skip a
\* completed hour, else start the sample hour
LoopTop ==
    /\ pc = "loop"
    /\ IF proc.hours # 0 /\ proc.sample_hour >= proc.hours
       THEN pc' = "returned" /\ proc' = proc
       ELSE IF proc.sample_hour \in proc.completed
       THEN pc' = "loop" /\ proc' = [proc EXCEPT !.sample_hour = @ + 1]
       ELSE /\ pc' = "fetch"
            /\ proc' = [proc EXCEPT !.actual_rows = <<>>,
                                    !.predicted_rows = <<>>, !.wp = 0]
    /\ UNCHANGED <<config, store, t_out, rh, sub, planned, simulated, result>>

\* one waypoint: a NaN actual row on error (nan marks it), else an
\* actual row and the waypoint's predicted rows
FetchWaypoint ==
    /\ pc = "fetch" /\ proc.wp < NumWaypoints
    /\ \E error \in BOOLEAN :
         proc' = [proc EXCEPT
             !.actual_rows = Append(@, [node_id |-> proc.wp,
                                        sample_hour |-> proc.sample_hour,
                                        nan |-> error]),
             !.predicted_rows = IF error THEN @
                                ELSE Append(@, [node_id |-> proc.wp,
                                                sample_hour |-> proc.sample_hour]),
             !.wp = @ + 1]
    /\ UNCHANGED <<config, store, pc, t_out, rh, sub, planned, simulated, result>>

\* append_actual(hdf5_path, pd.DataFrame(actual_rows))
AppendActual ==
    /\ pc = "fetch" /\ proc.wp = NumWaypoints
    /\ store' = [store EXCEPT !.actual_weather = @ \o proc.actual_rows]
    /\ pc' = "append_predicted"
    /\ UNCHANGED <<config, t_out, rh, sub, planned, simulated, result, proc>>

\* if predicted_rows: append_predicted(...)
AppendPredicted ==
    /\ pc = "append_predicted"
    /\ store' = [store EXCEPT !.predicted_weather = @ \o proc.predicted_rows]
    /\ pc' = "check"
    /\ UNCHANGED <<config, t_out, rh, sub, planned, simulated, result, proc>>

\* if shutdown_requested[0]: return
CheckShutdown ==
    /\ pc = "check"
    /\ pc' = IF proc.shutdown_requested THEN "returned" ELSE "wait"
    /\ UNCHANGED <<config, store, t_out, rh, sub, planned, simulated, result, proc>>

\* unless this was the last hour: sleep for the rest of the hour, if any
\* is left, and test the flag again when the sleep ends
WaitForNextHour ==
    /\ pc = "wait"
    /\ \E wait_left \in BOOLEAN :
         pc' = IF /\ ~(proc.hours # 0 /\ proc.sample_hour >= proc.hours - 1)
                  /\ wait_left
                  /\ proc.shutdown_requested
               THEN "returned" ELSE "next"
    /\ UNCHANGED <<config, store, t_out, rh, sub, planned, simulated, result, proc>>

\* sample_hour += 1
NextSampleHour ==
    /\ pc = "next"
    /\ proc' = [proc EXCEPT !.sample_hour = @ + 1]
    /\ pc' = "loop"
    /\ UNCHANGED <<config, store, t_out, rh, sub, planned, simulated, result>>

\* SIGINT or SIGTERM: _signal_handler sets the flag
Signal ==
    /\ pc \in Running
    /\ ~proc.shutdown_requested
    /\ proc' = [proc EXCEPT !.shutdown_requested = TRUE]
    /\ UNCHANGED <<config, store, pc, t_out, rh, sub, planned, simulated, result>>

\* the process is stopped where it stands and loses its locals
Kill ==
    /\ pc \in Running
    /\ pc' = "stopped"
    /\ proc' = NULL
    /\ UNCHANGED <<config, store, t_out, rh, sub, planned, simulated, result>>

\* the steps the collector takes by itself
CollectorStep ==
    \/ LoopTop
    \/ FetchWaypoint
    \/ AppendActual
    \/ AppendPredicted
    \/ CheckShutdown
    \/ WaitForNextHour
    \/ NextSampleHour

CollectNext ==
    \/ StartCollect
    \/ CollectorStep
    \/ Signal
    \/ Kill

CollectSpec == CollectInit /\ [][CollectNext]_vars

\* a running collector is scheduled until it returns
CollectFairSpec == CollectSpec /\ WF_vars(CollectorStep)

\* ------------------------------------------------------------------------
\* Two append_actual calls on the same file (shared/hdf5_io.py).  Each call
\* opens the file, reads the length of the table, resizes the table and
\* writes its rows at the tail; nothing in the code orders the steps of
\* one call against those of the other.
\* ------------------------------------------------------------------------
MaxBatch == 2                      \* rows per call: 1 .. MaxBatch
Callers == {1, 2}

\* the rows of sample hour h for the waypoints 0 .. n - 1
Batch(h, n) == [i \in 1..n |-> [node_id |-> i - 1, sample_hour |-> h]]

\* a row of a freshly resized table, before anything is written to it
ZeroRow == [node_id |-> 0, sample_hour |-> 0]

AppendInit ==
    /\ config \in [stored : {Batch(0, n) : n \in 0..1},
                    batches : [Callers -> {Batch(h, n) : h \in Callers, n \in 1..MaxBatch}]]
    /\ \A c \in Callers : config.batches[c][1].sample_hour = c
    /\ store = [exists |-> TRUE, actual_weather |-> config.stored,
                predicted_weather |-> <<>>]
    /\ proc = [c \in Callers |-> [at |-> "call", arr |-> config.batches[c], old_len |-> None]]
    /\ pc = "append"
    /\ t_out = NULL
    /\ rh = NULL
    /\ sub = NULL
    /\ planned = NULL
    /\ simulated = NULL
    /\ result = NULL

\* with h5py.File(path, "a") as f: ds = f["actual_weather"].  When the
\* other call holds the file open, the open either shares it (same
\* process, or file locking off) or raises (the file is locked)
OpenFile ==
    /\ pc = "append"
    /\ \E c \in Callers :
         /\ proc[c].at = "call"
         /\ \E locked \in {b \in BOOLEAN : b =>
                 \E d \in Callers : proc[d].at \in {"opened", "read", "resized"}} :
              proc' = [proc EXCEPT ![c].at = IF locked THEN "OSError" ELSE "opened"]
    /\ UNCHANGED <<config, store, pc, t_out, rh, sub, planned, simulated, result>>

\* old_len = ds.shape[0]
ReadLength ==
    /\ pc = "append"
    /\ \E c \in Callers :
         /\ proc[c].at = "opened"
         /\ proc' = [proc EXCEPT ![c].at = "read",
                                 ![c].old_len = Len(store.actual_weather)]
    /\ UNCHANGED <<config, store, pc, t_out, rh, sub, planned, simulated, result>>

\* ds.resize(n, axis=0): the first n rows, padded with zero rows
Resized(ds, n) == [i \in 1..n |-> IF i <= Len(ds) THEN ds[i] ELSE ZeroRow]

\* ds.resize(old_len + len(arr), axis=0)
Resize ==
    /\ pc = "append"
    /\ \E c \in Callers :
         /\ proc[c].at = "read"
         /\ store' = [store EXCEPT !.actual_weather =
                          Resized(@, proc[c].old_len + Len(proc[c].arr))]
         /\ proc' = [proc EXCEPT ![c].at = "resized"]
    /\ UNCHANGED <<config, pc, t_out, rh, sub, planned, simulated, result>>

\* ds[old_len:] = arr on a tail of as many rows as arr has, or arr[1]
\* broadcast over the tail
Written(ds, old_len, arr) ==
    [i \in 1..Len(ds) |->
        IF i <= old_len THEN ds[i]
        ELSE IF Len(ds) - old_len = Len(arr) THEN arr[i - old_len] ELSE arr[1]]

\* ds[old_len:] = arr, then the file is closed.  A tail of another length
\* than arr cannot take it: the write raises, or broadcasts a single row
WriteRows ==
    /\ pc = "append"
    /\ \E c \in Callers :
         /\ proc[c].at = "resized"
         /\ \E fits \in {b \in BOOLEAN :
                 /\ Len(store.actual_weather) - proc[c].old_len = Len(proc[c].arr) => b
                 /\ b => \/ Len(store.actual_weather) - proc[c].old_len = Len(proc[c].arr)
                         \/ Len(proc[c].arr) = 1} :
              /\ store' = IF fits
                          THEN [store EXCEPT !.actual_weather =
                                   Written(@, proc[c].old_len, proc[c].arr)]
                          ELSE store
              /\ proc' = [proc EXCEPT ![c].at = IF fits THEN "closed" ELSE "TypeError"]
    /\ UNCHANGED <<config, pc, t_out, rh, sub, planned, simulated, result>>

AppendNext ==
    \/ OpenFile
    \/ ReadLength
    \/ Resize
    \/ WriteRows

AppendSpec == AppendInit /\ [][AppendNext]_vars

\* ------------------------------------------------------------------------
\* The static tier's transform and LP on speed grids of one and two speeds
\* ------------------------------------------------------------------------
LpInit ==
    /\ config \in {[c EXCEPT !.speed_choices = k]
                       : c \in {d \in Configs : d.approach = "static_det"}, k \in 1..2}
    /\ store \in Stores
    /\ pc = "transform"
    /\ t_out = NULL
    /\ rh = NULL
    /\ sub = NULL
    /\ planned = NULL
    /\ simulated = NULL
    /\ result = NULL
    /\ proc = NULL

LpSpec == LpInit /\ [][TransformStaticDet \/ OptimizeStaticDet]_vars

\* ------------------------------------------------------------------------
\* The snapshot choice of the rolling-horizon driver on its own: the RH
\* transform lists the sample hours of /predicted_weather, which
\* create_hdf5 leaves empty until the collector has appended to it, and
\* the driver calls _pick_sample_hour with its clock
\* ------------------------------------------------------------------------
SnapshotHours == {0, 1, 2, 3, 6}

\* a one-leg store holding the snapshots issued at the hours H
SnapshotStore(H) ==
    [metadata |-> Metadata(<<10>>),
     predicted_weather |->
         {[node_id |-> n, forecast_hour |-> sh, sample_hour |-> sh, wx |-> Calm]
             : n \in 0..1, sh \in H},
     actual_weather |-> <<>>]

PickInit ==
    /\ store \in {SnapshotStore(H) : H \in SUBSET SnapshotHours}
    /\ config \in [approach : {"dynamic_rh"},
                    eta_hours : {MaxETA},
                    speed_range_knots : {<<8 * Knot, 12 * Knot>>},
                    speed_granularity : {4 * Knot},
                    elapsed_time : {(k * Hour) \div 2 : k \in 0..(2 * MaxETA)}]
    /\ pc = "transform"
    /\ t_out = NULL
    /\ rh = NULL
    /\ sub = NULL
    /\ planned = NULL
    /\ simulated = NULL
    /\ result = NULL
    /\ proc = NULL

LoadSnapshots ==
    /\ pc = "transform"
    /\ t_out' = RhTransform(store, config)
    /\ pc' = "pick"
    /\ UNCHANGED <<config, store, rh, sub, planned, simulated, result, proc>>

\* sample_hour = _pick_sample_hour(available_sample_hours, elapsed_time);
\* available[0] of an empty list raises IndexError
PickSnapshot ==
    /\ pc = "pick"
    /\ IF t_out.available_sample_hours = <<>>
       THEN /\ pc' = "IndexError"
            /\ result' = result
       ELSE /\ pc' = "picked"
            /\ result' = PickSampleHour(t_out.available_sample_hours,
                                        config.elapsed_time)
    /\ UNCHANGED <<config, store, t_out, rh, sub, planned, simulated, proc>>

PickSpec == PickInit /\ [][LoadSnapshots \/ PickSnapshot]_vars

\* ------------------------------------------------------------------------
\* The direct DP on a store with holes: the collector writes no predicted
\* row for a waypoint whose fetch failed, and only the forecast hours the
\* API returned
\* ------------------------------------------------------------------------
KeptHours == {0..MaxETA, {0}, {0, 2}, {1, 3}}
LostNodes == {{}, {0}, {1}}

\* the store without the predicted rows of the nodes N and of the
\* forecast hours outside H
Thin(st, H, N) ==
    [st EXCEPT !.predicted_weather =
        {r \in @ : r.forecast_hour \in H /\ r.node_id \notin N}]

GapInit ==
    /\ config \in {c \in Configs : c.approach = "dynamic_det"}
    /\ store \in {Thin(st, H, N) : st \in Stores, H \in KeptHours, N \in LostNodes}
    /\ \A r \in store.predicted_weather : r.sample_hour = config.forecast_origin
    /\ pc = "transform"
    /\ t_out = NULL
    /\ rh = NULL
    /\ sub = NULL
    /\ planned = NULL
    /\ simulated = NULL
    /\ result = NULL
    /\ proc = NULL

GapSpec == GapInit /\ [][TransformDynamicDet \/ OptimizeDynamicDet]_vars

\* ------------------------------------------------------------------------
\* Properties
\* ------------------------------------------------------------------------
\* the run is of a tier that plans with the DP
DpTier == config.approach \in {"dynamic_det", "dynamic_rh"}

HasSchedule(r) == r # NULL /\ "speed_schedule" \in DOMAIN r

CoversAllLegs(r, tr) == HasSchedule(r) /\ Len(r.speed_schedule) = tr.num_legs

IsPrefix(s, t) == Len(s) <= Len(t) /\ SubSeq(t, 1, Len(s)) = s

\* C1: ETA is a hard constraint on every plan.  A schedule returned by the
\* DP or by the RH driver that covers all legs has planned_time_h (the sum
\* of its planned leg times) at most ETA, and at every RH epoch the time
\* elapsed at the start of the sub-plan plus the sub-plan's total time is
\* at most ETA.
C1_EtaIsHard ==
    /\ (DpTier /\ pc = "optimized" /\ CoversAllLegs(planned, t_out))
          => planned.planned_time_h <= config.eta_hours * Hour
    /\ HasSchedule(IF sub = NULL THEN NULL ELSE sub.result)
          => sub.transform.time_offset + sub.result.planned_time_h
                <= config.eta_hours * Hour

C1_Witness ==
    /\ pc = "optimized" /\ config.approach = "dynamic_rh"
    /\ CoversAllLegs(planned, t_out)
    /\ Len(planned.decision_points) >= 2
    /\ planned.planned_time_h = config.eta_hours * Hour

\* C2: in the rolling-horizon loop committed legs are never revisited.  In
\* every step the committed schedule of the previous state is an unchanged
\* prefix of the current one, and a sub-instance solved in the step starts
\* at the node right after the last committed leg and spans the rest of
\* the route.
C2_CommittedNeverRevisited ==
    [][(rh # NULL /\ rh' # NULL) =>
          /\ IsPrefix(rh.committed_legs, rh'.committed_legs)
          /\ sub' # sub =>
               LET n == Len(rh.committed_legs)
               IN  /\ sub'.transform.node_metadata
                        = SubSeq(t_out.node_metadata, n + 1, t_out.num_nodes)
                   /\ sub'.transform.distances
                        = SubSeq(t_out.distances, n + 1, t_out.num_legs)
                   /\ (n > 0 => sub'.transform.node_metadata[1]
                        = t_out.node_metadata[rh.committed_legs[n].leg + 2])]_vars

C2_Witness ==
    /\ pc = "rh_loop" /\ sub # NULL /\ sub.epoch >= 1
    /\ Len(rh.decision_log) >= 2
    /\ Len(rh.committed_legs) > rh.decision_log[1].legs_committed
    /\ rh.decision_log[1].legs_committed >= 1

\* start of leg j of a sub-plan, in voyage hours
StartInVoyage(s, j) ==
    s.transform.time_offset + SumSeq(SubSeq(s.result.speed_schedule, 1, j - 1), "time_h")

\* the RH state right after the epoch recorded in sub has committed
EpochCommitted ==
    /\ pc = "rh_loop" /\ sub # NULL /\ HasSchedule(sub.result)
    /\ rh.dp_idx = sub.epoch + 1

\* C3: replan-commitment rule.  A non-terminal epoch e commits exactly the
\* legs of the sub-plan that start, in voyage hours, strictly before the
\* next decision hour h_{e+1}; the terminal epoch commits every remaining
\* leg.
C3_CommitsLegsStartingBeforeNextDecision ==
    EpochCommitted =>
        LET decision_hours == DecisionHours(t_out.ETA, config.replan_frequency_hours, 0)
            schedule == sub.result.speed_schedule
            n == rh.decision_log[Len(rh.decision_log)].legs_committed
        IN  IF sub.epoch + 1 >= Len(decision_hours)
            THEN n = Len(schedule)
            ELSE \A j \in 1..Len(schedule) :
                    (j <= n) <=> (StartInVoyage(sub, j)
                                     < decision_hours[sub.epoch + 2] * Hour)

\* entry j of the schedule is leg j - 1 + first and leaves the node that
\* sits at that place of the route
Contiguous(schedule, node_metadata) ==
    /\ Len(schedule) <= Len(node_metadata) - 1
    /\ \A j \in 1..Len(schedule) :
          /\ schedule[j].leg = j - 1
          /\ schedule[j].node_id = node_metadata[j].node_id

RECURSIVE Trajectories(_, _, _)
Trajectories(tr, dt, i) ==
    IF i = 0 THEN {[t |-> 0, cost |-> 0, ks |-> <<>>]}
    ELSE LET ext == {[p |-> p, k |-> k, e |-> Edge(tr, dt, i - 1, p.t, k)] :
                        p \in Trajectories(tr, dt, i - 1), k \in 1..Len(tr.speeds)}
         IN  {[t |-> x.e.t_next, cost |-> x.p.cost + x.e.leg_fuel,
               ks |-> Append(x.p.ks, x.k)] :
                 x \in {y \in ext : y.e.t_next < MaxTimeSlots(tr.ETA, dt)}}

\* C5: Bellman optimality of the forward DP.  The cells of node i are the
\* slots some speed sequence reaches, each holding the least summed edge
\* cost over the sequences that end in its slot; the returned plan follows
\* a sequence whose cost is the least over the destination cells with
\* t * dt <= ETA, and its reported fuel is that cost up to the rounding of
\* each leg to four decimals.
C5_BellmanOptimal ==
    sub # NULL =>
        LET tr == sub.transform
            dt == config.time_granularity
            tabs == DpTables(tr, dt)
            dest == Trajectories(tr, dt, tr.num_legs)
            inTime == {p \in dest : p.t * dt <= tr.ETA}
        IN  /\ \A i \in 0..tr.num_legs :
                 LET paths == Trajectories(tr, dt, i)
                     tab == tabs[i + 1]
                 IN  /\ {tab[j].t : j \in 1..Len(tab)} = {p.t : p \in paths}
                     /\ \A j \in 1..Len(tab) :
                           tab[j].cost = MinOfSet({p.cost : p \in {q \in paths : q.t = tab[j].t}})
            /\ HasSchedule(sub.result) =>
                 LET schedule == sub.result.speed_schedule
                     best == MinOfSet({p.cost : p \in inTime})
                 IN  /\ \E p \in inTime :
                           /\ p.cost = best
                           /\ \A j \in 1..Len(schedule) :
                                 schedule[j].sws_knots = tr.speeds[p.ks[j]]
                     /\ 2 * Abs(sub.result.planned_fuel_kg - best) <= Sub * tr.num_legs

C5_Witness ==
    /\ sub # NULL /\ HasSchedule(sub.result)
    /\ sub.transform.num_legs = MaxLegs
    /\ LET tabs == DpTables(sub.transform, config.time_granularity)
           paths == Trajectories(sub.transform, config.time_granularity, MaxLegs)
       IN  /\ Len(tabs[MaxLegs + 1]) >= 2
           /\ \E p, q \in paths : p.t = q.t /\ p.cost < q.cost
           /\ \E p \in paths : p.t * config.time_granularity > sub.transform.ETA

\* C6: the DP returns Infeasible, with no schedule and no planned totals,
\* exactly when the destination node has no cell with t * dt <= ETA (in
\* particular when it has no cell at all because every edge was rejected
\* for t_next >= max_time_slots); otherwise it returns a schedule.
C6_InfeasibleIffNoCellInTime ==
    sub # NULL =>
        LET tr == sub.transform
            dt == config.time_granularity
            dest == DpTables(tr, dt)[tr.num_legs + 1]
            noCell == \A j \in 1..Len(dest) : dest[j].t * dt > tr.ETA
        IN  /\ noCell <=> sub.result.status = "Infeasible"
            /\ noCell => DOMAIN sub.result \cap
                           {"speed_schedule", "planned_fuel_kg", "planned_time_h"} = {}
            /\ ~noCell => /\ HasSchedule(sub.result)
                          /\ sub.result.status \in {"Optimal", "Feasible"}
                          /\ Len(sub.result.speed_schedule) = tr.num_legs

C6_Witness ==
    /\ sub # NULL /\ sub.result.status = "Infeasible"
    /\ ~HasSchedule(sub.result)
    /\ DpTables(sub.transform, config.time_granularity)[sub.transform.num_legs + 1] = <<>>

\* the RH loop has logged a sub-DP that returned no plan
Failed(st) ==
    /\ st.decision_log # <<>>
    /\ st.decision_log[Len(st.decision_log)].dp_status \notin {"Optimal", "Feasible"}

\* C7: when the sub-DP of an RH epoch is infeasible the loop stops there.
\* The step that solves it commits nothing and appends one log entry with
\* legs_committed = 0 and the sub-DP's status; afterwards no epoch is
\* solved, and the driver returns the earlier committed legs unchanged
\* with status Feasible.  If the first sub-DP fails, the log has exactly
\* one entry and the schedule is empty.
C7_InfeasibleEpochStopsLoop ==
    [][(rh # NULL /\ rh' # NULL) =>
          /\ (sub' # sub /\ ~HasSchedule(sub'.result)) =>
                LET last == rh'.decision_log[Len(rh'.decision_log)]
                IN  /\ Failed(rh')
                    /\ rh'.committed_legs = rh.committed_legs
                    /\ rh'.current_node_idx = rh.current_node_idx
                    /\ rh'.decision_log = Append(rh.decision_log, last)
                    /\ last.legs_committed = 0
                    /\ last.dp_status = sub'.result.status
                    /\ sub'.epoch = 0 => /\ Len(rh'.decision_log) = 1
                                         /\ rh'.committed_legs = <<>>
          /\ Failed(rh) =>
                /\ rh' = rh /\ sub' = sub
                /\ pc' = "optimized" =>
                      /\ planned'.status = "Feasible"
                      /\ planned'.speed_schedule = rh.committed_legs
                      /\ planned'.decision_points = rh.decision_log
                      /\ Len(rh.decision_log) = 1 => planned'.speed_schedule = <<>>]_vars

C7_Witness ==
    /\ pc = "optimized" /\ config.approach = "dynamic_rh"
    /\ Failed(rh)
    /\ Len(planned.decision_points) >= 2
    /\ planned.speed_schedule # <<>>
    /\ planned.speed_schedule = rh.committed_legs

\* the optimizer found no plan: the LP or the direct DP returned a status
\* other than Optimal/Feasible, or an RH sub-DP did
PlanInfeasible ==
    \/ planned # NULL /\ planned.status \notin {"Optimal", "Feasible"}
    \/ rh # NULL /\ Failed(rh)

\* C8: in each of the three tiers an infeasible plan (LP Infeasible, or a
\* DP, run directly or as an RH sub-problem, with no destination cell
\* within the time cap) stops the run after optimize; the simulator is
\* never invoked.
C8_InfeasiblePlanNeverSimulated ==
    PlanInfeasible =>
        /\ pc \in {"rh_loop", "optimized", "aborted"}
        /\ simulated = NULL

\* C9: RH with replan_frequency >= ETA is a single DP call.  It has one
\* decision epoch, its only sub-instance spans all nodes with time_offset
\* 0 and the full ETA, every leg of it is committed, and the returned
\* schedule is that of the direct DP run on the same store with the same
\* forecast origin and dynamic_det options.
C9_DegenerateRhIsDirectDp ==
    (config.approach = "dynamic_rh" /\ pc = "optimized"
       /\ config.replan_frequency_hours >= config.eta_hours) =>
        LET direct == DpOptimize(DetTransform(store, config), config.time_granularity)
        IN  /\ Len(planned.decision_points) = 1
            /\ sub.epoch = 0
            /\ sub.transform.time_offset = 0
            /\ sub.transform.ETA = config.eta_hours * Hour
            /\ sub.transform.node_metadata = NodeMetadata(store.metadata)
            /\ planned.decision_points[1].legs_committed
                  = IF HasSchedule(sub.result) THEN Len(sub.result.speed_schedule) ELSE 0
            /\ planned.speed_schedule
                  = IF HasSchedule(direct) THEN direct.speed_schedule ELSE <<>>

\* C10: a tier run goes transform, optimize, simulate, metrics to the
\* end.  Once optimize lets the tier proceed, every field the metrics and
\* result-building step reads from the simulated block is one the
\* simulator emitted, so the step never fails on a missing key and the run
\* ends with a result record.
C10_SimulatedBlockAccepted ==
    /\ simulated # NULL => MetricsReads \cup ResultReads \subseteq DOMAIN simulated
    /\ pc # "KeyError"
    /\ pc = "done" => result # NULL


\* the weather of the leg a time-series row reports
RowWx(row) == [beaufort_number |-> row.beaufort, current |-> row.current_knots]

\* the legs of a time series whose engine speed moved by more than 0.01
ClampedLegs(rows) ==
    {i \in 1..Len(rows) :
        Abs(rows[i].actual_sws_knots - rows[i].planned_sws_knots) > Fine \div 100}

\* C11: sws_violations is the number of simulated legs on which clamping
\* the required SWS into [min_speed, max_speed] moved it by more than 0.01
\* knots; on those legs the achieved SOG is the forward physics of the
\* clamped SWS (at least 0.1) and, when the required SWS was above
\* max_speed, is strictly below the target; on the others it is the target
C11_ViolationsAreClampedLegs ==
    simulated # NULL =>
        LET rows == simulated.time_series
        IN  /\ simulated.sws_violations = Cardinality(ClampedLegs(rows))
            /\ \A i \in 1..Len(rows) :
                 /\ rows[i].actual_sws_knots =
                        Max(ToFine(config.speed_range_knots[1]),
                            Min(ToFine(config.speed_range_knots[2]),
                                rows[i].planned_sws_knots))
                 /\ i \notin ClampedLegs(rows) =>
                        rows[i].actual_sog_knots = rows[i].planned_sog_knots
                 /\ i \in ClampedLegs(rows) =>
                        /\ rows[i].actual_sog_knots =
                               Max(calculate_speed_over_ground(
                                       (rows[i].actual_sws_knots * Knot) \div Fine,
                                       RowWx(rows[i])),
                                   Knot \div 10)
                        /\ rows[i].planned_sws_knots > ToFine(config.speed_range_knots[2])
                               => rows[i].actual_sog_knots < rows[i].planned_sog_knots

\* a two-leg voyage with one violation, on a leg whose required SWS was
\* above max_speed and was clamped down to it
C11_Witness ==
    /\ simulated # NULL
    /\ Len(simulated.time_series) = 2
    /\ simulated.sws_violations = 1
    /\ \E i \in 1..2 :
         /\ simulated.time_series[i].planned_sws_knots > ToFine(config.speed_range_knots[2])
         /\ simulated.time_series[i].actual_sws_knots = ToFine(config.speed_range_knots[2])

\* the inverse search for target_sog under wx ends with a best residual of
\* 0.1 knots or more, so that target_sog itself is returned as the SWS
SearchFailed(target_sog, wx) ==
    SearchOutcome(target_sog, wx, SpeedOverGround(5 * Fine, wx, Fine),
                  SpeedOverGround(20 * Fine, wx, Fine)).best_error > Fine \div 10

\* C12: every simulated leg on which the inverse-SWS search failed to
\* converge, and the target SOG was returned as the required SWS, is one
\* of the legs the clamp counts in sws_violations
C12_FallbackCountedAsViolation ==
    simulated # NULL =>
        \A i \in 1..Len(simulated.time_series) :
            SearchFailed(ToFine(simulated.time_series[i].planned_sog_knots),
                         RowWx(simulated.time_series[i]))
                => i \in ClampedLegs(simulated.time_series)

\* C13: the reported total fuel and total time are the sums of the per-leg
\* fuel and time of the emitted rows; in every row the cumulative distance,
\* time and fuel are the running sums up to that row, they never decrease
\* from one row to the next, and the last row carries the totals
C13_TotalsAreRunningSums ==
    simulated # NULL =>
        LET rows == simulated.time_series
        IN  /\ simulated.total_fuel_mt = SumSeq(rows, "fuel_mt")
            /\ simulated.total_time_h = SumSeq(rows, "time_h")
            /\ \A i \in 1..Len(rows) :
                 /\ rows[i].cum_distance_nm = SumSeq(SubSeq(rows, 1, i), "distance_nm")
                 /\ rows[i].cum_time_h = SumSeq(SubSeq(rows, 1, i), "time_h")
                 /\ rows[i].cum_fuel_mt = SumSeq(SubSeq(rows, 1, i), "fuel_mt")
                 /\ i > 1 => /\ rows[i].cum_distance_nm >= rows[i - 1].cum_distance_nm
                             /\ rows[i].cum_time_h >= rows[i - 1].cum_time_h
                             /\ rows[i].cum_fuel_mt >= rows[i - 1].cum_fuel_mt
                 /\ i = Len(rows) => /\ rows[i].cum_time_h = simulated.total_time_h
                                     /\ rows[i].cum_fuel_mt = simulated.total_fuel_mt

\* a simulated voyage of two legs that differ in time and in fuel
C13_Witness ==
    /\ simulated # NULL
    /\ Len(simulated.time_series) = 2
    /\ simulated.time_series[1].time_h # simulated.time_series[2].time_h
    /\ simulated.time_series[1].fuel_mt # simulated.time_series[2].fuel_mt
    /\ simulated.time_series[2].cum_fuel_mt > simulated.time_series[1].cum_fuel_mt

\* C14: whenever the target SOG is the SOG of some still-water speed in
\* [1, 30] knots under the given weather, the speed calculate_sws_from_sog
\* returns reproduces the target to within 0.1 knots
C14_RoundTripWithinTolerance ==
    pc = "returned" => Abs(result.sog - config.target_sog) < Fine \div 10

\* the forecasts the grid of t_out holds for the queried node
QueriedForecasts ==
    IF config.node_id \in DOMAIN t_out.weather_grid
    THEN t_out.weather_grid[config.node_id] ELSE <<>>

C16_MissingWindIsCalm ==
    config.wind_speed_10m_kmh = NaN =>
        /\ pc \in {"stored", "physics"} => store.beaufort_number = 0
        /\ pc = "physics" => /\ result.wind_speed_10m_kmh = 0
                             /\ result.beaufort_number = 0

\* the collector runs and a shutdown signal has been delivered to it
ShutdownPending == pc \in Running /\ proc.shutdown_requested

\* C17: once SIGINT or SIGTERM has been delivered to the running loop, the
\* collector starts no new sample hour: it finishes at most the sample
\* hour in progress, appending its rows, and then returns
C17_GracefulShutdown ==
    /\ [][ShutdownPending => ~(pc = "loop" /\ pc' = "fetch")]_vars
    /\ (ShutdownPending ~> pc \notin Running)

\* the sample hours of the rows of /actual_weather, in file order
StoredHours == [i \in 1..Len(store.actual_weather) |-> store.actual_weather[i].sample_hour]

Places(r) == {i \in 1..Len(store.actual_weather) : store.actual_weather[i] = r}

\* C19: when two append calls on the same file have both read the length,
\* resized and written their rows, whatever the order of their steps, the
\* table holds every row of both batches exactly once and the rows stored
\* before are where they were
C19_AppendsSerialized ==
    (\A c \in Callers : proc[c].at = "closed") =>
        /\ \A c \in Callers : \A k \in 1..Len(config.batches[c]) :
               Cardinality(Places(config.batches[c][k])) = 1
        /\ SubSeq(store.actual_weather, 1, Len(config.stored)) = config.stored

\* the static LP has returned a result
LpReturned == pc = "optimized" /\ config.approach = "static_det"

\* C20: an Optimal result of the static LP has one schedule entry per
\* segment 0 .. S-1, in segment order; each entry uses one grid speed V_k
\* with the SOG f[s][k], the time l_s / f[s][k] and the fuel
\* l_s * FCR[k] / f[s][k]; the entry times sum to at most the ETA.  On a
\* grid of a single speed the result is that speed on every segment, or
\* Infeasible
C20_LpScheduleOnePerSegment ==
    LpReturned =>
        /\ planned.status \in {"Optimal", "Infeasible"}
        /\ planned.status = "Optimal" =>
              /\ Len(planned.speed_schedule) = t_out.num_segments
              /\ \A i \in 1..Len(planned.speed_schedule) :
                    /\ planned.speed_schedule[i].segment = i - 1
                    /\ t_out.num_speeds = 1 =>
                           planned.speed_schedule[i].sws_knots = t_out.speeds[1]
                    /\ \E k \in 1..t_out.num_speeds :
                          /\ planned.speed_schedule[i].sws_knots = t_out.speeds[k]
                          /\ planned.speed_schedule[i].sog_knots = t_out.sog_matrix[i][k]
                          /\ planned.speed_schedule[i].time_h =
                                 DivMul(t_out.distances[i] * Hour, Knot,
                                        t_out.sog_matrix[i][k])
                          /\ planned.speed_schedule[i].fuel_kg =
                                 MulDiv(t_out.fcr[k],
                                        planned.speed_schedule[i].time_h, 10^Decimals)
              /\ SumSeq(planned.speed_schedule, "time_h") <= t_out.ETA

\* an Optimal schedule of three segments that needs both grid speeds to
\* meet the ETA
C20_Witness ==
    /\ LpReturned
    /\ planned.status = "Optimal"
    /\ Len(planned.speed_schedule) = 3
    /\ \E i, j \in 1..3 :
          planned.speed_schedule[i].sws_knots # planned.speed_schedule[j].sws_knots

\* the number of thresholds that are at most the reading
ThresholdsReached(wind_speed_kmh) ==
    Cardinality({i \in 1..12 : BeaufortThresholds[i] <= wind_speed_kmh})

\* C21: wind_speed_to_beaufort maps a non-negative wind speed to the number
\* of thresholds 0.5 .. 32.7 m/s that are at most the speed, an integer in
\* 0..12; a lower reading never gets a higher number, and a reading
\* exactly on a threshold belongs to the higher class
C21_BeaufortCountsThresholds ==
    (pc \in {"stored", "physics"} /\ config.wind_speed_10m_kmh # NaN) =>
        /\ store.beaufort_number \in 0..12
        /\ store.beaufort_number = ThresholdsReached(config.wind_speed_10m_kmh)
        /\ \A v \in WindReadings :
              v <= config.wind_speed_10m_kmh =>
                  wind_speed_to_beaufort(v) <= store.beaufort_number
        /\ \A i \in 1..12 :
              config.wind_speed_10m_kmh = BeaufortThresholds[i] =>
                  store.beaufort_number = i

\* a reading of 20.8 m/s, exactly on the ninth threshold, stored as
\* Beaufort 9
C21_Witness ==
    /\ pc = "stored"
    /\ config.wind_speed_10m_kmh = BeaufortThresholds[9]
    /\ store.beaufort_number = 9

\* the time slots of the cells the backtracking visits, node 0 first:
\* t_cur at node i + 1, then t_prev of parent[i + 1][t_cur], and so on
RECURSIVE PathSlots(_, _, _)
PathSlots(tabs, i, t_cur) ==
    IF i < 0 THEN <<t_cur>>
    ELSE Append(PathSlots(tabs, i - 1, ParentCell(tabs[i + 2], t_cur).pt), t_cur)

\* C22: forward time monotonicity of the DP.  Every edge the recursion
\* evaluates leaves a cell (i, t) for node i + 1 and a slot t' >= t, and is
\* stored only if t' < T_max = ceil(ETA/dt) + ceil(50/dt); so every node
\* has its own table, every stored cell has 0 <= t < T_max and a parent
\* slot that is not later, and the slots along the backtracked path never
\* decrease from slot 0 at node 0.
C22_TimeNeverDecreases ==
    sub # NULL =>
        LET tr == sub.transform
            dt == config.time_granularity
            tabs == DpTables(tr, dt)
            dest == tabs[tr.num_legs + 1]
            best == BestCell(dest, dt, tr.ETA, 1, 0)
        IN  /\ Len(tabs) = tr.num_nodes
            /\ \A j \in 1..Len(tabs[1]) : tabs[1][j].t = 0
            /\ \A i \in 1..tr.num_legs :
                  /\ \A j \in 1..Len(tabs[i]), k \in 1..Len(tr.speeds) :
                        Edge(tr, dt, i - 1, tabs[i][j].t, k).t_next >= tabs[i][j].t
                  /\ \A j \in 1..Len(tabs[i + 1]) :
                        /\ 0 <= tabs[i + 1][j].t
                        /\ tabs[i + 1][j].t < Ceil(tr.ETA, dt) + Ceil(50 * Hour, dt)
                        /\ tabs[i + 1][j].pt <= tabs[i + 1][j].t
                        /\ SlotIndex(tabs[i], tabs[i + 1][j].pt) # 0
            /\ best # 0 =>
                  LET path == PathSlots(tabs, tr.num_legs - 1, dest[best].t)
                  IN  /\ Len(path) = tr.num_nodes
                      /\ path[1] = 0
                      /\ \A n \in 1..(Len(path) - 1) : path[n] <= path[n + 1]

\* a plan of three legs whose slots grow along the path, found by a DP
\* that also stored a destination cell later than the ETA
C22_Witness ==
    /\ sub # NULL /\ HasSchedule(sub.result)
    /\ sub.transform.num_legs = MaxLegs
    /\ LET tr == sub.transform
           dt == config.time_granularity
           tabs == DpTables(tr, dt)
           dest == tabs[MaxLegs + 1]
           path == PathSlots(tabs, MaxLegs - 1, dest[BestCell(dest, dt, tr.ETA, 1, 0)].t)
       IN  /\ \A n \in 1..MaxLegs : path[n] < path[n + 1]
           /\ \E j \in 1..Len(dest) : dest[j].t * dt > tr.ETA

\* the sample hours that have rows in /predicted_weather
SnapshotsStored == {r.sample_hour : r \in store.predicted_weather}

\* C23: whenever _pick_sample_hour is called the available list is not
\* empty and is sorted ascending, and the call returns the largest
\* available sample hour s <= floor(elapsed_time), or the smallest
\* available one when no sample hour is that old
C23_PicksFreshestSnapshot ==
    /\ pc = "pick" =>
          /\ t_out.available_sample_hours # <<>>
          /\ \A i, j \in 1..Len(t_out.available_sample_hours) :
                i < j => t_out.available_sample_hours[i] < t_out.available_sample_hours[j]
    /\ pc # "IndexError"
    /\ pc = "picked" =>
          LET old == {s \in SnapshotsStored : s * Hour <= config.elapsed_time}
          IN  /\ result \in SnapshotsStored
              /\ IF old # {} THEN result \in old /\ \A s \in old : s <= result
                 ELSE \A s \in SnapshotsStored : result <= s

\* C24: for an edge leaving cell (i, t) of a DP run with time offset
\* `offset`, the weather is read at forecast hour
\* min(floor(t * dt + offset), max_forecast_hour), for the direct DP and
\* for every sub-DP the RH driver starts at its (fractional) elapsed time
C24_ForecastHourIsFloor ==
    sub # NULL =>
        LET tr == sub.transform
            dt == config.time_granularity
            tabs == DpTables(tr, dt)
        IN  \A i \in 1..tr.num_legs :
                \A j \in 1..Len(tabs[i]) :
                    ForecastHour(tr, tabs[i][j].t * dt)
                        = Min((tabs[i][j].t * dt + tr.time_offset) \div Hour,
                              tr.max_forecast_hour)

\* the lookup for (nid, fh) leaves the exact path
NonExact(tr, nid, fh) ==
    ~(nid \in DOMAIN tr.weather_grid /\ fh \in DOMAIN tr.weather_grid[nid])

\* the cells of the forward recursion whose lookup left the exact path
NonExactLookups(tr, dt) ==
    LET tabs == DpTables(tr, dt)
    IN  {c \in UNION {{<<i, j>> : j \in 1..Len(tabs[i])} : i \in 1..tr.num_legs} :
            NonExact(tr, tr.node_metadata[c[1]].node_id,
                     ForecastHour(tr, tabs[c[1]][c[2]].t * dt))}

\* the instance with every hole of the grid filled by the weather the
\* lookup falls back to, so that every lookup is exact
Filled(tr) ==
    [tr EXCEPT !.weather_grid =
        [nid \in {tr.node_metadata[i].node_id : i \in 1..tr.num_nodes} |->
            [fh \in 0..tr.max_forecast_hour |-> LookupWeather(tr, nid, fh)]]]

\* C25: a non-exact weather lookup of the DP is never silent.  The output
\* of a DP run that took the nearest-hour or the calm-defaults path at
\* least once shows it, by a counter or by its status: it differs from the
\* output of the run on the same instance in which every lookup is exact
C25_FallbackLookupsAreVisible ==
    (pc = "optimized" /\ NonExactLookups(t_out, config.time_granularity) # {}) =>
        planned # DpOptimize(Filled(t_out), config.time_granularity)

\* C26: back-pointer consistency of the DP.  After the forward recursion
\* every cell (i + 1, t') holds a parent (t, k) with (i, t) a stored cell,
\* k a speed index whose edge from (i, t) lands in slot t', and
\* cost[i + 1][t'] = cost[i][t] + the fuel of that edge; a slot is stored
\* once per node, so the walk back from any destination cell meets one
\* stored cell per node and ends at (0, 0) after num_legs steps
C26_BackPointersConsistent ==
    sub # NULL =>
        LET tr == sub.transform
            dt == config.time_granularity
            tabs == DpTables(tr, dt)
            dest == tabs[tr.num_legs + 1]
        IN  /\ \A i \in 1..tr.num_nodes :
                  \A j, l \in 1..Len(tabs[i]) : tabs[i][j].t = tabs[i][l].t => j = l
            /\ \A i \in 1..tr.num_legs :
                  \A j \in 1..Len(tabs[i + 1]) :
                     LET c == tabs[i + 1][j]
                         p == SlotIndex(tabs[i], c.pt)
                     IN  /\ p # 0
                         /\ c.pk \in 1..Len(tr.speeds)
                         /\ Edge(tr, dt, i - 1, c.pt, c.pk).t_next = c.t
                         /\ c.cost = tabs[i][p].cost + Edge(tr, dt, i - 1, c.pt, c.pk).leg_fuel
            /\ \A j \in 1..Len(dest) :
                  LET path == PathSlots(tabs, tr.num_legs - 1, dest[j].t)
                  IN  /\ Len(path) = tr.num_legs + 1
                      /\ path[1] = 0
                      /\ \A n \in 1..Len(path) : SlotIndex(tabs[n], path[n]) # 0

\* a DP over three legs with several destination cells, one of which can
\* be entered by an edge other than the one its parent records
C26_Witness ==
    /\ sub # NULL
    /\ sub.transform.num_legs = MaxLegs
    /\ LET tr == sub.transform
           dt == config.time_granularity
           tabs == DpTables(tr, dt)
           dest == tabs[MaxLegs + 1]
       IN  /\ Len(dest) >= 2
           /\ \E j \in 1..Len(dest), l \in 1..Len(tabs[MaxLegs]), k \in 1..Len(tr.speeds) :
                 /\ <<tabs[MaxLegs][l].t, k>> # <<dest[j].pt, dest[j].pk>>
                 /\ Edge(tr, dt, MaxLegs - 1, tabs[MaxLegs][l].t, k).t_next = dest[j].t

\* the sum of legs_committed over the entries of a decision log
RECURSIVE LegsLogged(_)
LegsLogged(log) ==
    IF log = <<>> THEN 0 ELSE log[1].legs_committed + LegsLogged(Tail(log))

\* C27: bookkeeping of the rolling-horizon loop.  After every epoch
\* current_node_idx is the number of committed legs, elapsed_time and
\* elapsed_fuel are the sums of time_h and fuel_kg over them, each log
\* entry starts at the node where the entry before it stopped, and the
\* legs_committed values add up to the length of the schedule (the one
\* returned, once the driver has returned)
C27_RhBookkeeping ==
    rh # NULL =>
        /\ rh.current_node_idx = Len(rh.committed_legs)
        /\ rh.elapsed_time = SumSeq(rh.committed_legs, "time_h")
        /\ rh.elapsed_fuel = SumSeq(rh.committed_legs, "fuel_kg")
        /\ \A e \in 1..Len(rh.decision_log) :
              /\ rh.decision_log[e].node_idx
                    = IF e = 1 THEN 0
                      ELSE rh.decision_log[e - 1].node_idx
                           + rh.decision_log[e - 1].legs_committed
              /\ rh.decision_log[e].elapsed_time_h
                    = SumSeq(SubSeq(rh.committed_legs, 1,
                                    rh.decision_log[e].node_idx
                                    + rh.decision_log[e].legs_committed), "time_h")
        /\ LegsLogged(rh.decision_log) = Len(rh.committed_legs)
        /\ pc \in {"optimized", "simulate", "metrics", "done", "aborted", "KeyError"} =>
              /\ LegsLogged(planned.decision_points) = Len(planned.speed_schedule)
              /\ planned.planned_time_h = rh.elapsed_time
              /\ planned.planned_fuel_kg = rh.elapsed_fuel

\* a driver that has returned after three epochs, the first of which
\* committed fewer legs than its sub-plan had
C27_Witness ==
    /\ pc = "optimized" /\ config.approach = "dynamic_rh"
    /\ Len(planned.decision_points) = 3
    /\ Len(planned.speed_schedule) = 3
    /\ planned.decision_points[1].legs_committed = 1
    /\ planned.decision_points[1].dp_planned_time_h > planned.decision_points[1].elapsed_time_h

\* the driver has returned
RhReturned ==
    /\ config.approach = "dynamic_rh"
    /\ pc \in {"optimized", "simulate", "metrics", "done", "aborted", "KeyError"}

\* the safety half of C28, on the state of the loop
RhProgress ==
    rh # NULL =>
        LET decision_hours == DecisionHours(t_out.ETA, config.replan_frequency_hours, 0)
            log == rh.decision_log
        IN  /\ Len(decision_hours) = Ceil(t_out.ETA, config.replan_frequency_hours * Hour)
            /\ rh.dp_idx <= Len(decision_hours)
            /\ Len(log) <= Len(decision_hours)
            /\ \A e \in 1..Len(log) :
                  /\ log[e].dp_status \in {"Optimal", "Feasible"} => log[e].legs_committed >= 1
                  /\ log[e].dp_status \notin {"Optimal", "Feasible"} => e = Len(log)
            /\ (Len(log) = Len(decision_hours) /\ ~Failed(rh)) =>
                  rh.current_node_idx = t_out.num_legs
            /\ RhReturned =>
                  /\ planned.status \in {"Optimal", "Feasible"}
                  /\ planned.status = "Optimal" <=>
                         Len(planned.speed_schedule) = t_out.num_legs
                  /\ planned.status = "Feasible" =>
                         Failed(rh) \/ t_out.ETA - rh.elapsed_time <= 0

\* C28: progress and termination of the rolling-horizon loop.  The list of
\* decision epochs has ceil(ETA / replan frequency) entries; every epoch
\* whose sub-DP found a plan commits at least one leg; the loop ends, with
\* every leg committed and status Optimal, or at the first epoch that is
\* infeasible or has no ETA left, with status Feasible; a terminal epoch
\* with a feasible sub-DP covers the whole route
C28_RhTerminates ==
    /\ []RhProgress
    /\ (pc = "rh_loop") ~> (pc = "optimized")

\* the driver returned Optimal from its terminal epoch, the third, where
\* it committed the last leg
C28_Witness ==
    /\ pc = "optimized" /\ config.approach = "dynamic_rh"
    /\ planned.status = "Optimal"
    /\ Len(planned.decision_points) = 3
    /\ Len(planned.decision_points)
          = Len(DecisionHours(t_out.ETA, config.replan_frequency_hours, 0))
    /\ planned.decision_points[3].legs_committed >= 1

\* the file holds every row of sample hour h: an actual row per waypoint,
\* and a predicted row for each waypoint whose actual row is not a NaN row
HourComplete(h) ==
    /\ \A n \in 0..(NumWaypoints - 1) :
          \E i \in 1..Len(store.actual_weather) :
              /\ store.actual_weather[i].sample_hour = h
              /\ store.actual_weather[i].node_id = n
    /\ \A i \in 1..Len(store.actual_weather) :
          (store.actual_weather[i].sample_hour = h /\ ~store.actual_weather[i].nan) =>
              \E j \in 1..Len(store.predicted_weather) :
                  /\ store.predicted_weather[j].sample_hour = h
                  /\ store.predicted_weather[j].node_id = store.actual_weather[i].node_id

\* C29: crash consistency of the completed-hours marker.  Whenever the
\* collector is not running (it returned, or was killed at any point),
\* every sample hour get_completed_runs reports has all its rows in the
\* file, and so has every hour a (re)started collector holds as completed
\* and will skip
C29_CompletedHoursAreComplete ==
    /\ pc \in {"returned", "stopped"} =>
          \A h \in get_completed_runs(store) : HourComplete(h)
    /\ pc \in Running =>
          \A h \in proc.completed : HourComplete(h)

\* the schedule is read per leg: its first entry has a node_id key
PerLeg(schedule) == schedule # <<>> /\ "node_id" \in DOMAIN schedule[1]

\* the nodes, in route order, whose leg the schedule covers and whose
\* next waypoint lies further along the route
RECURSIVE ScheduledNodes(_, _, _)
ScheduledNodes(schedule, metadata, i) ==
    IF i >= Len(metadata) THEN <<>>
    ELSE (IF /\ \E j \in 1..Len(schedule) :
                   IF PerLeg(schedule)
                   THEN schedule[j].node_id = metadata[i].node_id
                   ELSE schedule[j].segment = metadata[i].segment
             /\ metadata[i + 1].distance_from_start_nm
                   > metadata[i].distance_from_start_nm
          THEN <<metadata[i].node_id>> ELSE <<>>)
         \o ScheduledNodes(schedule, metadata, i + 1)

\* C30: the simulator skips a leg whose source node (per-leg schedule) or
\* segment (per-segment schedule) has no entry, or whose distance is not
\* positive: the time series has exactly one row per other leg, in route
\* order, the totals are the sums over those rows, a skipped leg counts no
\* violation, and the schedule is read per leg exactly when its first
\* entry has a node_id key (an empty one gives an empty voyage)
C30_UnscheduledLegsSkipped ==
    simulated # NULL =>
        LET rows == simulated.time_series
            legs == ScheduledNodes(planned.speed_schedule, store.metadata, 1)
        IN  /\ [i \in 1..Len(rows) |-> rows[i].node_id] = legs
            /\ \A i \in 1..Len(rows) : rows[i].distance_nm > 0
            /\ simulated.total_time_h = SumSeq(rows, "time_h")
            /\ simulated.total_fuel_mt = SumSeq(rows, "fuel_mt")
            /\ rows # <<>> => rows[Len(rows)].cum_distance_nm = SumSeq(rows, "distance_nm")
            /\ simulated.sws_violations = Cardinality(ClampedLegs(rows))
            /\ planned.speed_schedule = <<>> => rows = <<>>
            /\ rows = <<>> => /\ simulated.total_time_h = 0
                              /\ simulated.total_fuel_mt = 0
                              /\ simulated.sws_violations = 0

\* a per-leg schedule for node 0 alone, whose entry also names segment 0,
\* on a route whose two legs both leave segment 0: the simulation has the
\* row of node 0 only, with a violation counted on it
C30_Witness ==
    /\ simulated # NULL
    /\ PerLeg(planned.speed_schedule)
    /\ Len(planned.speed_schedule) = 1
    /\ planned.speed_schedule[1].node_id = 0
    /\ store.metadata[3].distance_from_start_nm > store.metadata[2].distance_from_start_nm
    /\ Len(simulated.time_series) = 1
    /\ simulated.sws_violations = 1

=============================================================================
